---- MODULE Spec2Model ----
(***************************************************************************)
(* Model of the text-to-plan pipeline of tg_planner_bot:                   *)
(*   GrokClient._call_grok / _clean_json / analyze / _fallback_response    *)
(*   (src/grok_client.py), the render step of handle_any_text              *)
(*   (src/handlers/messages.py), GraphGenerator.generate and the five      *)
(*   renderers with _get_event_color and _save_to_disk                     *)
(*   (src/graph_generator.py).                                             *)
(***************************************************************************)
EXTENDS Integers, Sequences, FiniteSets, TLC

VARIABLES
    user_id,      \* message.from_user.id of the request
    user_text,    \* message.text.strip()
    pc,           \* position of the request in handle_any_text / analyze
    attempt,      \* loop variable of _call_grok
    log,          \* history of service calls and backoff waits
    raw,          \* text returned by _call_grok (token sequence)
    data,         \* dict built by json.loads + validation inside analyze
    exc,          \* exception that ended the try block of analyze ("none")
    result,       \* record returned by analyze
    dbEvents,     \* rows written by Database.add_event
    dbCalls,      \* invocations of Database.add_event (successful or not)
    renderCalls,  \* renderer invocations made by GraphGenerator.generate
    image,        \* what the renderer drew into the returned buffer
    files,        \* chart files written by _save_to_disk
    saveTasks,    \* db.save_graph tasks started by _save_to_disk
    rng,          \* the 12 values np.random.randint returned to the renderer
    renderExc,    \* exception that left GraphGenerator.generate ("none")
    keyboard,     \* keyboard sent with the last message of the handler
    hpc,          \* two concurrent requests: position of each handler
    hattempt,     \* ... loop variable of each _call_grok coroutine
    hcalls,       \* ... calls of the service made by each coroutine
    hfails,       \* ... failed calls of each coroutine
    href,         \* ... address of the record analyze returned to each
    heap,         \* ... the dict objects allocated so far
    running,      \* ... handler that occupies the event loop thread (0: none)
    tasks,        \* ... save_graph tasks created by _save_to_disk
    sent,         \* ... whether the chart of each request was sent
    logs,         \* ... what reached the logging system
    cb,           \* one callback query going through process_callback
    ms,           \* one chat session: FSM state and the messages it receives
    dbc           \* the Database object and the operations that use it

\* state of the callback, session and database models
xvars == <<cb, ms, dbc>>

\* state outside the single-request model
cvars == <<hpc, hattempt, hcalls, hfails, href, heap, running, tasks, sent, logs,
           xvars>>

\* state of the two-request model
qvars == <<hpc, hattempt, hcalls, hfails, href, heap, running, tasks, sent, logs>>

vars == <<user_id, user_text, pc, attempt, log, raw, data, exc, result,
          dbEvents, dbCalls, renderCalls, image, files, saveTasks, rng,
          renderExc, keyboard, cvars>>

(***************************************************************************)
(* Bounds of the explored inputs.                                          *)
(***************************************************************************)
MaxEvents == 2
MaxLen == 32          \* longest event list handed to a renderer
MaxMessages == 2      \* messages one chat session receives

(***************************************************************************)
(* Program constants.                                                      *)
(***************************************************************************)
RangeStart == 1      \* for attempt in range(1, 4)
RangeEnd == 4
LastAttemptEarly == RangeEnd - 2
LastAttempt == 3     \* if attempt == 3: raise
BackoffBase == 2     \* asyncio.sleep(2 ** attempt)

UserIds == {42}
UserTexts == {"zavtra v 10 fizika kontrolnaya"}

PlanTypes == {"schedule_day", "schedule_week", "schedule_month",
              "schedule_semester", "schedule_year", "goal_plan",
              "lesson_help", "meeting_help", "other"}

\* type strings the reasoning service may produce outside the prompt's list
UnknownTypes == {"banana", "schedule_decade"}

(***************************************************************************)
(* Exceptions.  The openai classes form a hierarchy; an except clause      *)
(* catches an exception when it is an instance of a listed class.          *)
(***************************************************************************)
Mro(e) ==
    CASE e = "APITimeoutError"     -> {"APITimeoutError", "APIConnectionError", "APIError", "Exception"}
      [] e = "APIConnectionError"  -> {"APIConnectionError", "APIError", "Exception"}
      [] e = "InternalServerError" -> {"InternalServerError", "APIStatusError", "APIError", "Exception"}
      [] e = "BadRequestError"     -> {"BadRequestError", "APIStatusError", "APIError", "Exception"}
      [] e = "AuthenticationError" -> {"AuthenticationError", "APIStatusError", "APIError", "Exception"}
      [] e = "AttributeError"      -> {"AttributeError", "Exception"}
      [] e = "TypeError"           -> {"TypeError", "Exception"}
      [] e = "JSONDecodeError"     -> {"JSONDecodeError", "ValueError", "Exception"}
      [] e = "DatabaseError"       -> {"DatabaseError", "Exception"}
      [] e = "ValueError"          -> {"ValueError", "Exception"}
      [] e = "NameError"           -> {"NameError", "Exception"}
      [] e = "TelegramAPIError"    -> {"TelegramAPIError", "Exception"}
      [] OTHER                     -> {}

IsInstance(e, classes) == (Mro(e) \cap classes) # {}

\* failures one attempt of chat.completions.create (+ line 156) can end in
AttemptFailures == {"APITimeoutError", "APIConnectionError", "InternalServerError",
                    "BadRequestError", "AuthenticationError", "AttributeError"}

CallGrokCatchesException(e) == IsInstance(e, {"Exception"})

\* except (APIConnectionError, APITimeoutError, APIError) of _call_grok
CallGrokCatches(e) ==
    IsInstance(e, {"APIConnectionError", "APITimeoutError", "APIError"})

(***************************************************************************)
(* JSON values.  A parsed value is [kind, obj]; for kind = "dict", obj is  *)
(* a function from the keys that are present to their values.  The keys    *)
(* type, title and advice hold strings, events holds a sequence of JSON    *)
(* values, buttons a sequence of [text, callback] records.                 *)
(***************************************************************************)
EmptyObj == [k \in {} |-> ""]
NoValue == [kind |-> "none", obj |-> EmptyObj]
JDict(o) == [kind |-> "dict", obj |-> o]
JList == [kind |-> "list", obj |-> EmptyObj]
JStr  == [kind |-> "str", obj |-> EmptyObj]
JNum  == [kind |-> "num", obj |-> EmptyObj]
JNull == [kind |-> "null", obj |-> EmptyObj]

Present(v) == [present |-> TRUE, val |-> v]
Absent == [present |-> FALSE]
Field(k, opt) == IF opt.present THEN k :> opt.val ELSE EmptyObj

MakeDict(ty, ti, ad, ev, bt) ==
    Field("type", ty) @@ Field("title", ti) @@ Field("advice", ad)
        @@ Field("events", ev) @@ Field("buttons", bt)

\* event entries of an events list
Ev1 == JDict("title" :> "Fizika KR" @@ "start" :> "2026-02-27T10:00:00"
             @@ "end" :> "2026-02-27T11:30:00")
Ev2 == JDict("title" :> "Vstrecha" @@ "start" :> "2026-02-27T14:00:00")
Ev3 == JDict("title" :> "Sozvon" @@ "start" :> "2026-02-27T14:00:00"
             @@ "end" :> "2026-02-27T10:00:00")
EventEntries == {Ev1, Ev2, Ev3, JNum}
EventLists == UNION {[1..n -> EventEntries] : n \in 0..MaxEvents}
ButtonLists ==
    {<<>>,
     <<[text |-> "Shpargalki", callback |-> "materials_physics"]>>,
     <<[text |-> "Pokazat grafik dnya", callback |-> "show_day"],
       [callback |-> "materials_physics"]>>}

OptOf(S) == {Absent} \cup {Present(v) : v \in S}

\* documents the reasoning service may answer with
Docs ==
    {JDict(MakeDict(ty, ti, ad, Present(<<Ev1>>), Absent)) :
        ty \in OptOf(PlanTypes \cup UnknownTypes),
        ti \in OptOf({"Podgotovka k KR"}),
        ad \in OptOf({"Udachi na kontrolnoy"})}
    \cup
    {JDict(MakeDict(Present(ty), Present("Plan"), Present("Sovet"), ev, bt)) :
        ty \in {"schedule_week", "goal_plan", "lesson_help", "other"},
        ev \in OptOf(EventLists),
        bt \in OptOf(ButtonLists)}
    \cup {JList, JStr, JNum, JNull}

(***************************************************************************)
(* Raw replies are token sequences: a fence marker, a language tag, white  *)
(* space, prose, or the text of one JSON document.                         *)
(***************************************************************************)
Tok(t) == [t |-> t, v |-> NoValue]
Fence == Tok("fence")
TagJson == Tok("json")
Ws == Tok("ws")
Prose == Tok("prose")
DocTok(d) == [t |-> "doc", v |-> d]

Bodies == {<<DocTok(d)>> : d \in Docs} \cup {<<Prose>>, <<>>}

Wrappings(b) ==
    { b,
      <<Fence, TagJson, Ws>> \o b \o <<Ws, Fence>>,
      <<Fence, Ws>> \o b \o <<Ws, Fence>>,
      <<Fence, TagJson, Ws>> \o b,
      <<Prose, Ws>> \o b,
      <<Ws>> \o b \o <<Ws>> }

Replies == UNION {Wrappings(b) : b \in Bodies}

(***************************************************************************)
(* str.strip(): drops leading and trailing white space.                    *)
(***************************************************************************)
RECURSIVE LStrip(_)
LStrip(s) == IF s # <<>> /\ Head(s).t = "ws" THEN LStrip(Tail(s)) ELSE s

RECURSIVE RStrip(_)
RStrip(s) ==
    IF s # <<>> /\ s[Len(s)].t = "ws" THEN RStrip(SubSeq(s, 1, Len(s) - 1)) ELSE s

Strip(s) == RStrip(LStrip(s))

\* raw.startswith("```json")
StartsWithJsonFence(s) == Len(s) >= 2 /\ s[1].t = "fence" /\ s[2].t = "json"

\* raw.endswith("```")
EndsWithFence(s) == Len(s) >= 1 /\ s[Len(s)].t = "fence"

\* GrokClient._clean_json
CleanJson(r) ==
    LET r1 == Strip(r)
        r2 == IF StartsWithJsonFence(r1) THEN SubSeq(r1, 3, Len(r1)) ELSE r1
        r3 == IF EndsWithFence(r2) THEN SubSeq(r2, 1, Len(r2) - 1) ELSE r2
    IN  Strip(r3)

\* a parser that picks the first document out of surrounding text
RECURSIVE JsonLoadsLenient(_)
JsonLoadsLenient(s) ==
    IF s = <<>> THEN [ok |-> FALSE, value |-> NoValue]
    ELSE IF Head(s).t = "doc" THEN [ok |-> TRUE, value |-> Head(s).v]
    ELSE JsonLoadsLenient(Tail(s))

\* json.loads: the text must be exactly one JSON document, white space
\* around it allowed; anything else raises JSONDecodeError
JsonLoads(s) ==
    LET b == Strip(s)
    IN  IF Len(b) = 1 /\ b[1].t = "doc"
        THEN [ok |-> TRUE, value |-> b[1].v]
        ELSE [ok |-> FALSE, value |-> NoValue]

(***************************************************************************)
(* analyze, lines 189-193: fill in the required keys that are missing.     *)
(***************************************************************************)
Required == {"type", "title", "advice"}
Placeholder == "Ne ukazano"

RequiredDefaultSwapped(key) == IF key = "type" THEN Placeholder ELSE "other"

RequiredDefault(key) == IF key # "type" THEN Placeholder ELSE "other"

Validate(obj) ==
    [k \in DOMAIN obj \cup Required |->
        IF k \in DOMAIN obj THEN obj[k] ELSE RequiredDefault(k)]

\* dict.get(key, default)
Get(obj, key, default) == IF key \in DOMAIN obj THEN obj[key] ELSE default

NONE == "None"

\* truth value of data.get("events")
EventsTruthy(obj) == "events" \in DOMAIN obj /\ obj["events"] # <<>>

\* data.get("events", [{}])[0].get(...) raises AttributeError when the first
\* entry of the list is not a dict
AddEventArgsRaise(obj) == EventsTruthy(obj) /\ obj["events"][1].kind # "dict"

AddEventArgsNoTitle(uid, text, obj) ==
    [user_id    |-> uid,
     raw_text   |-> text,
     event_type |-> Get(obj, "type", "other"),
     title      |-> NONE,
     start_time |-> IF EventsTruthy(obj)
                    THEN Get(obj["events"][1].obj, "start", NONE) ELSE NONE,
     end_time   |-> IF EventsTruthy(obj)
                    THEN Get(obj["events"][1].obj, "end", NONE) ELSE NONE,
     description |-> Get(obj, "advice", NONE)]

\* the arguments analyze passes to db.add_event (lines 196-205)
AddEventArgs(uid, text, obj) ==
    [user_id    |-> uid,
     raw_text   |-> text,
     event_type |-> Get(obj, "type", "other"),
     title      |-> Get(obj, "title", NONE),
     start_time |-> IF EventsTruthy(obj)
                    THEN Get(obj["events"][1].obj, "start", NONE) ELSE NONE,
     end_time   |-> IF EventsTruthy(obj)
                    THEN Get(obj["events"][1].obj, "end", NONE) ELSE NONE,
     description |-> Get(obj, "advice", NONE)]

FallbackResponseNoButton(text) ==
    [type      |-> "other",
     title     |-> "Ne udalos obrabotat zapros",
     advice    |-> "Izvini, Grok vremenno ne smog obrabotat tvoy tekst",
     events    |-> <<>>,
     buttons   |-> <<>>,
     help_text |-> "Nazhmi knopku dlya povtornoy popytki"]

\* GrokClient._fallback_response
FallbackResponse(text) ==
    [type      |-> "other",
     title     |-> "Ne udalos obrabotat zapros",
     advice    |-> "Izvini, Grok vremenno ne smog obrabotat tvoy tekst",
     events    |-> <<>>,
     buttons   |-> <<[text |-> "Poprobovat snova", callback |-> "retry"]>>,
     help_text |-> "Nazhmi knopku dlya povtornoy popytki"]

AnalyzeCatchesJsonOnly(e) == IsInstance(e, {"JSONDecodeError"})

\* the except clauses of analyze: json.JSONDecodeError, then Exception
AnalyzeCatches(e) ==
    IsInstance(e, {"JSONDecodeError"}) \/ IsInstance(e, {"Exception"})

(***************************************************************************)
(* GraphGenerator.generate                                                 *)
(***************************************************************************)
Mapping ==
    [t \in {"schedule_day", "schedule_week", "schedule_month",
            "schedule_semester", "schedule_year", "goal_plan"} |->
        CASE t = "schedule_day"      -> "day_gantt"
          [] t = "schedule_week"     -> "week_heatmap"
          [] t = "schedule_month"    -> "month_bar"
          [] t = "schedule_semester" -> "semester_gantt"
          [] t = "schedule_year"     -> "year_progress_line"
          [] t = "goal_plan"         -> "year_progress_line"]

MappingGetStrict(graph_type) ==
    IF graph_type \in DOMAIN Mapping THEN Mapping[graph_type] ELSE "none"

\* mapping.get(graph_type, GraphGenerator.day_gantt)
MappingGet(graph_type) ==
    IF graph_type \in DOMAIN Mapping THEN Mapping[graph_type] ELSE "day_gantt"

\* func(events, title, user_id): the renderer invocation generate makes
Generate(graph_type, events, title, uid) ==
    <<[func |-> MappingGet(graph_type), graph_type |-> graph_type,
       events |-> events, title |-> title, user_id |-> uid]>>

StartsWithScheduleDayOnly(t) == t = "schedule_day"

\* graph_type.startswith("schedule_")
StartsWithSchedule(t) ==
    t \in {"schedule_day", "schedule_week", "schedule_month",
           "schedule_semester", "schedule_year", "schedule_decade"}

(***************************************************************************)
(* Timestamps.  datetime.fromisoformat(s.replace("Z", "+00:00")            *)
(* .replace("T", " ")) over the timestamp strings of the model: whether    *)
(* the string parses, whether the result carries a UTC offset, and its     *)
(* calendar fields; min counts minutes since 2026-02-01 00:00.             *)
(***************************************************************************)
Stamp(aw, mn, d, wd, h) ==
    [ok |-> TRUE, aware |-> aw, min |-> mn, day |-> d, weekday |-> wd, hour |-> h]
BadStamp ==
    [ok |-> FALSE, aware |-> FALSE, min |-> 0, day |-> 0, weekday |-> 0, hour |-> 0]

ParseIso(s) ==
    CASE s = "2026-02-02T09:00:00"  -> Stamp(FALSE, 1980, 2, 0, 9)
      [] s = "2026-02-05T05:00:00"  -> Stamp(FALSE, 6060, 5, 3, 5)
      [] s = "2026-02-05T23:15:00"  -> Stamp(FALSE, 7155, 5, 3, 23)
      [] s = "2026-02-08T06:00:00"  -> Stamp(FALSE, 10440, 8, 6, 6)
      [] s = "2026-02-20T12:00:00"  -> Stamp(FALSE, 28080, 20, 4, 12)
      [] s = "2026-02-27T10:00:00"  -> Stamp(FALSE, 38040, 27, 4, 10)
      [] s = "2026-02-27T11:30:00"  -> Stamp(FALSE, 38130, 27, 4, 11)
      [] s = "2026-02-27T14:00:00"  -> Stamp(FALSE, 38280, 27, 4, 14)
      [] s = "2026-03-20T10:00:00"  -> Stamp(FALSE, 68280, 20, 4, 10)
      [] s = "2026-02-27T10:00:00Z" -> Stamp(TRUE, 38040, 27, 4, 10)
      [] s = "2026-02-27T11:30:00Z" -> Stamp(TRUE, 38130, 27, 4, 11)
      [] OTHER                      -> BadStamp    \* ValueError

\* datetime.now(): 2026-02-27 08:00, and its midnight (base_date of day_gantt)
Now == Stamp(FALSE, 37920, 27, 4, 8)
BaseDate == Stamp(FALSE, 37440, 27, 4, 0)

MinutesPerDay == 1440

\* ev.get(key, default) on an event entry
EvGet(ev, key, default) == Get(ev.obj, key, default)

(***************************************************************************)
(* GraphGenerator._get_event_color.  Titles are opaque strings; Words      *)
(* gives the keywords that occur in the lower-cased title.                 *)
(***************************************************************************)
LessonWords == {"fizika", "matematika", "urok", "kr", "kontrolnaya"}
MeetingWords == {"vstrecha", "miting", "biznes", "sobesedovanie"}
GoalWords == {"tsel", "plan", "pohudet", "vyuchit"}

Words(title) ==
    CASE title = "Fizika KR"             -> {"fizika", "kr"}
      [] title = "Urok fiziki"           -> {"urok"}
      [] title = "Vstrecha"              -> {"vstrecha"}
      [] title = "Biznes-plan"           -> {"biznes", "plan"}
      [] title = "Vyuchit angliyskiy"    -> {"vyuchit"}
      [] OTHER                           -> {}

COLORS ==
    [lesson |-> "#FF6B6B", meeting |-> "#4ECDC4", goal |-> "#FFD166",
     sport |-> "#06D6A0", default |-> "#45B7D1"]

GetEventColor(ev) ==
    LET t == Words(EvGet(ev, "title", ""))
    IN  IF t \cap LessonWords # {} THEN COLORS.lesson
        ELSE IF t \cap MeetingWords # {} THEN COLORS.meeting
        ELSE IF t \cap GoalWords # {} THEN COLORS.goal
        ELSE EvGet(ev, "color", COLORS.default)

(***************************************************************************)
(* What a renderer draws.  One record shape for the five charts and the    *)
(* "no events" placeholder; the fields a chart does not use stay empty.    *)
(***************************************************************************)
BlankImage ==
    [kind |-> "none", message |-> "", watermark |-> FALSE, bars |-> <<>>,
     cells |-> <<>>, heights |-> <<>>, progress |-> <<>>, done |-> 0,
     remaining |-> 0]
NoImage == BlankImage

Drawn(img) == [exc |-> "none", image |-> img]
Raised(e) == [exc |-> e, image |-> NoImage]

Min2(a, b) == IF a <= b THEN a ELSE b

(***************************************************************************)
(* GraphGenerator.day_gantt                                                *)
(***************************************************************************)
DayLimit == 30              \* events[:30]
SyntheticStepMin == 108     \* timedelta(hours=i * 1.8)
SyntheticDurMin == 72       \* timedelta(hours=1.2)

\* lines 127-139 for the entry at position i (from 0): the bar, or the
\* exception that leaves the loop
DayEntry(ev, i) ==
    IF ev.kind # "dict" THEN Raised("AttributeError")     \* line 136: ev.get
    ELSE
      LET st == ParseIso(EvGet(ev, "start", EvGet(ev, "start_time", "")))
          en == ParseIso(EvGet(ev, "end", EvGet(ev, "end_time", "")))
          parsed == st.ok /\ en.ok
      IN  IF parsed /\ (st.aware \/ en.aware)
          THEN Raised("TypeError")     \* aware minus naive, lines 137-138
          ELSE Drawn([label |-> EvGet(ev, "title", "Zadacha"),
                      start |-> IF parsed THEN st.min - BaseDate.min
                                ELSE i * SyntheticStepMin,
                      dur   |-> IF parsed THEN en.min - st.min
                                ELSE SyntheticDurMin,
                      color |-> GetEventColor(ev)])

RECURSIVE DayBars(_, _, _)
DayBars(events, i, acc) ==
    IF i >= Min2(Len(events), DayLimit) THEN Drawn(acc)
    ELSE LET e == DayEntry(events[i + 1], i)
         IN  IF e.exc # "none" THEN Raised(e.exc)
             ELSE DayBars(events, i + 1, Append(acc, e.image))

DayGantt(events) ==
    IF events = <<>>
    THEN {Drawn([BlankImage EXCEPT !.kind = "placeholder",
                                   !.message = "Na segodnya sobytiy net"])}
    ELSE LET b == DayBars(events, 0, <<>>)
         IN  IF b.exc # "none" THEN {Raised(b.exc)}
             ELSE {Drawn([BlankImage EXCEPT !.kind = "day", !.watermark = TRUE,
                                            !.bars = b.image])}

(***************************************************************************)
(* GraphGenerator.week_heatmap                                             *)
(***************************************************************************)
FirstHour == 6      \* hours = list(range(6, 24))
EndHour == 24
WeekDays == 0 .. 6
HourRows == 0 .. (EndHour - FirstHour - 1)

\* data = np.zeros((len(hours), 7)), indexed [hour_idx, day_idx]
ZeroCells == [c \in HourRows \X WeekDays |-> 0]

HourInGridFromOne(hour_idx) == 1 <= hour_idx /\ hour_idx < EndHour - FirstHour

\* 0 <= hour_idx < len(hours)
HourInGrid(hour_idx) == 0 <= hour_idx /\ hour_idx < EndHour - FirstHour

\* lines 189-196 for one entry: every fault is swallowed by the bare except
WeekEntry(cells, ev) ==
    IF ev.kind # "dict" THEN cells
    ELSE LET dt == ParseIso(EvGet(ev, "start", ""))
             hour_idx == dt.hour - FirstHour
         IN  IF dt.ok /\ HourInGrid(hour_idx)
             THEN [cells EXCEPT ![<<hour_idx, dt.weekday>>] = @ + 1]
             ELSE cells

RECURSIVE WeekCells(_, _, _)
WeekCells(events, i, cells) ==
    IF i > Len(events) THEN cells
    ELSE WeekCells(events, i + 1, WeekEntry(cells, events[i]))

WeekHeatmap(events) ==
    {Drawn([BlankImage EXCEPT !.kind = "week", !.watermark = TRUE,
                              !.cells = WeekCells(events, 1, ZeroCells)])}

(***************************************************************************)
(* GraphGenerator.month_bar                                                *)
(***************************************************************************)
MonthDays == 1 .. 31     \* reindex(range(1, 32), fill_value=0)

IsDict(ev) == ev.kind = "dict"
HasStartColumn(events) ==
    \E i \in DOMAIN events : IsDict(events[i]) /\ "start" \in DOMAIN events[i].obj

\* pd.to_datetime(df['start'], errors='coerce') of one row; a row without the
\* key is NaN in the column
RowStart(ev) == ParseIso(EvGet(ev, "start", ""))

\* rows whose start parses, restricted to one kind of timestamp
RowCounts(ev, mode) ==
    /\ RowStart(ev).ok
    /\ mode = "aware" => RowStart(ev).aware
    /\ mode = "naive" => ~RowStart(ev).aware

RECURSIVE RowsOnDay(_, _, _, _)
RowsOnDay(events, i, d, mode) ==
    IF i > Len(events) THEN 0
    ELSE (IF RowCounts(events[i], mode) /\ RowStart(events[i]).day = d THEN 1 ELSE 0)
         + RowsOnDay(events, i + 1, d, mode)

DailyShifted(events, mode) ==
    [d \in MonthDays |-> RowsOnDay(events, 1, d - 1, mode)]

\* df.groupby('day').size().reindex(range(1, 32), fill_value=0)
Daily(events, mode) == [d \in MonthDays |-> RowsOnDay(events, 1, d, mode)]

\* df['start'] = datetime.now().isoformat(): every row falls on today
DailyToday(events) == [d \in MonthDays |-> IF d = Now.day THEN Len(events) ELSE 0]

MixedZones(events) ==
    /\ \E i \in DOMAIN events : RowStart(events[i]).ok /\ RowStart(events[i]).aware
    /\ \E i \in DOMAIN events : RowStart(events[i]).ok /\ ~RowStart(events[i]).aware

FirstParsedAware(events) ==
    LET first == CHOOSE i \in DOMAIN events :
                    /\ RowStart(events[i]).ok
                    /\ \A j \in 1 .. (i - 1) : ~RowStart(events[j]).ok
    IN  RowStart(events[first]).aware

MonthChart(h) ==
    Drawn([BlankImage EXCEPT !.kind = "month", !.watermark = TRUE, !.heights = h])

\* A column that mixes timestamps with and without UTC offset is handled
\* differently by different pandas releases: the conversion raises, or the
\* rows that do not match the format of the first parsed row become NaT.
MonthBar(events) ==
    IF events = <<>> THEN DayGantt(<<>>)
    ELSE IF \E i \in DOMAIN events : ~IsDict(events[i])
    THEN {Raised("AttributeError")}         \* pd.DataFrame of dicts and scalars
    ELSE IF ~HasStartColumn(events) THEN {MonthChart(DailyToday(events))}
    ELSE IF MixedZones(events)
    THEN {Raised("ValueError"),
          MonthChart(Daily(events, IF FirstParsedAware(events)
                                   THEN "aware" ELSE "naive"))}
    ELSE {MonthChart(Daily(events, "all"))}

(***************************************************************************)
(* GraphGenerator.semester_gantt                                           *)
(***************************************************************************)
SemesterLimitAsDay == DayLimit

SemesterLimit == 25          \* events[:25]
SyntheticStepDays == 7       \* timedelta(weeks=i)
SyntheticDurDays == 14       \* timedelta(weeks=2)

\* timedelta.days: whole days, rounded down
Days(minutes) == minutes \div MinutesPerDay

\* lines 299-309 for the entry at position i (from 0); starts and durations
\* are kept in days, the chart divides them by 7
SemesterEntry(ev, i) ==
    IF ev.kind # "dict" THEN Raised("AttributeError")     \* line 306: ev.get
    ELSE
      LET st == ParseIso(EvGet(ev, "start", ""))
          en == ParseIso(EvGet(ev, "end", ""))
          parsed == st.ok /\ en.ok
      IN  IF parsed /\ (st.aware \/ en.aware)
          THEN Raised("TypeError")     \* aware minus naive, lines 307-308
          ELSE Drawn([label |-> EvGet(ev, "title", "Nedelya"),
                      start |-> IF parsed THEN Days(st.min - Now.min)
                                ELSE i * SyntheticStepDays,
                      dur   |-> IF parsed THEN Days(en.min - st.min)
                                ELSE SyntheticDurDays,
                      color |-> GetEventColor(ev)])

RECURSIVE SemesterBars(_, _, _)
SemesterBars(events, i, acc) ==
    IF i >= Min2(Len(events), SemesterLimit) THEN Drawn(acc)
    ELSE LET e == SemesterEntry(events[i + 1], i)
         IN  IF e.exc # "none" THEN Raised(e.exc)
             ELSE SemesterBars(events, i + 1, Append(acc, e.image))

SemesterGantt(events) ==
    IF events = <<>>
    THEN {Drawn([BlankImage EXCEPT !.kind = "placeholder",
                                   !.message = "Semestr pustoy"])}
    ELSE LET b == SemesterBars(events, 0, <<>>)
         IN  IF b.exc # "none" THEN {Raised(b.exc)}
             ELSE {Drawn([BlankImage EXCEPT !.kind = "semester", !.watermark = TRUE,
                                            !.bars = b.image])}

(***************************************************************************)
(* GraphGenerator.year_progress_line                                       *)
(***************************************************************************)
Months == 1 .. 12        \* months = list(range(1, 13))
RandLow == 5             \* np.random.randint(5, 25, 12)
RandHigh == 25
Total == 100

RECURSIVE CumSum(_, _)
CumSum(xs, i) == IF i = 0 THEN 0 ELSE xs[i] + CumSum(xs, i - 1)

NoClip(x, lo, hi) == x

\* np.clip
Clip(x, lo, hi) == IF x < lo THEN lo ELSE IF x > hi THEN hi ELSE x

Progress(seed) == [m \in Months |-> Clip(CumSum(seed, m), 0, 100)]

YearProgressLine(events, seed) ==
    LET progress == Progress(seed)
        done == progress[Len(progress)]
    IN  {Drawn([BlankImage EXCEPT !.kind = "year", !.watermark = TRUE,
                                  !.progress = progress, !.done = done,
                                  !.remaining = Total - done])}

(***************************************************************************)
(* GraphGenerator._save_to_disk and the renderers as generate calls them.  *)
(***************************************************************************)
\* values np.random.randint(5, 25, 12) may return: the extremes of the range
\* and a value between them
SeedValues == {RandLow, (RandLow + RandHigh) \div 2, RandHigh - 1}
SwitchPoints == {0, 4, 8}
Seeds ==
    {[m \in Months |-> IF m <= k THEN a ELSE b] :
        k \in SwitchPoints, a \in SeedValues, b \in SeedValues}

SeedsFor(func) == IF func = "year_progress_line" THEN Seeds ELSE {<<>>}

\* func(events, title, user_id) up to the in-memory chart
Renderer(func, events, seed) ==
    CASE func = "day_gantt"          -> DayGantt(events)
      [] func = "week_heatmap"       -> WeekHeatmap(events)
      [] func = "month_bar"          -> MonthBar(events)
      [] func = "semester_gantt"     -> SemesterGantt(events)
      [] func = "year_progress_line" -> YearProgressLine(events, seed)
      [] OTHER                       -> {Raised("TypeError")}

ReachesSaveAlways(img, uid) == TRUE

\* the early-return placeholders leave before "if user_id:"
ReachesSave(img, uid) == img.kind # "placeholder" /\ uid # 0

SaveTask(graph_type, uid, title) ==
    [user_id |-> uid, graph_type |-> graph_type, title |-> title]

\* open(file_path, "wb") succeeds and the task is created, or it raises
SaveToDisk(graph_type, uid, title) ==
    {[exc |-> "none", files |-> <<SaveTask(graph_type, uid, title)>>,
      tasks |-> <<SaveTask(graph_type, uid, title)>>],
     [exc |-> "OSError", files |-> <<>>, tasks |-> <<>>]}

NotSaved == [exc |-> "none", files |-> <<>>, tasks |-> <<>>]

\* what one call of generate returns or raises, and what it leaves on disk
RenderOutcomes(func, events, title, uid, seed) ==
    UNION {
        IF d.exc # "none" THEN {[exc |-> d.exc, image |-> NoImage,
                                 files |-> <<>>, tasks |-> <<>>]}
        ELSE { [exc |-> sv.exc,
                image |-> IF sv.exc = "none" THEN d.image ELSE NoImage,
                files |-> sv.files, tasks |-> sv.tasks] :
               sv \in IF ReachesSave(d.image, uid)
                      THEN SaveToDisk(d.image.kind, uid, title)
                      ELSE {NotSaved} }
        : d \in Renderer(func, events, seed) }

(***************************************************************************)
(* Keyboards (src/keyboards.py) and the keyboard step of handle_any_text.  *)
(***************************************************************************)
Button(text, callback_data) == [text |-> text, callback_data |-> callback_data]
NoKeyboard == [kind |-> "none", buttons |-> <<>>]
Inline(buttons) == [kind |-> "inline", buttons |-> buttons]

MainMenuKeyboard ==
    [kind |-> "reply",
     buttons |-> <<Button("Novoe raspisanie", "none"), Button("Novyy plan tseli", "none"),
                   Button("Moi poslednie grafiki", "none"),
                   Button("Pomosch i nastroyki", "none")>>]

RetryKeyboard == Inline(<<Button("Poprobovat snova", "retry")>>)

BuildInlineFromGrokKeepEmpty(buttons) ==
    Inline([i \in DOMAIN buttons |->
               Button(Get(buttons[i], "text", "Knopka"),
                      Get(buttons[i], "callback", "unknown"))])

\* build_inline_from_grok: one inline button per entry, in order, one per row
BuildInlineFromGrok(buttons) ==
    IF buttons = <<>> THEN RetryKeyboard
    ELSE Inline([i \in DOMAIN buttons |->
                    Button(Get(buttons[i], "text", "Knopka"),
                           Get(buttons[i], "callback", "unknown"))])

LessonHelpKeyboard ==
    Inline(<<Button("Shpargalki i formuly", "materials_fizika"),
             Button("Taymer na podgotovku", "pomodoro_25"),
             Button("Motivatsionnoe naputstvie", "motivation_lesson"),
             Button("Nazad k raspisaniyu", "show_day")>>)

MeetingHelpKeyboard ==
    Inline(<<Button("Postavit budilnik za 30 min", "set_alarm_30"),
             Button("Otkryt geotochku", "send_geo"),
             Button("Pokazat nomera telefonov", "show_contacts"),
             Button("Chek-list voprosov k vstreche", "meeting_checklist"),
             Button("Pokazat grafik dnya", "show_day")>>)

GoalPlanKeyboard ==
    Inline(<<Button("Dobavit sleduyuschiy shag", "add_step_999"),
             Button("Otmetit progress", "update_progress_999"),
             Button("Motivatsiya na segodnya", "motivation_goal"),
             Button("Pokazat grafik goda", "show_year")>>)

\* handle_any_text, lines 121-139
ReplyKeyboard(grok_data, graph_type) ==
    IF "buttons" \in DOMAIN grok_data THEN BuildInlineFromGrok(grok_data["buttons"])
    ELSE IF graph_type = "lesson_help" THEN LessonHelpKeyboard
    ELSE IF graph_type = "meeting_help" THEN MeetingHelpKeyboard
    ELSE IF graph_type = "goal_plan" THEN GoalPlanKeyboard
    ELSE MainMenuKeyboard

(***************************************************************************)
(* Two requests handled concurrently by one event loop.                    *)
(***************************************************************************)
Reqs == {1, 2}

\* the single-request specifications leave the two-request state untouched
Off == [pc |-> "off"]
ExtOff == cb = Off /\ ms = Off /\ dbc = Off

ConcOff ==
    /\ ExtOff
    /\ hpc = [i \in Reqs |-> "off"]
    /\ hattempt = [i \in Reqs |-> 0]
    /\ hcalls = [i \in Reqs |-> 0]
    /\ hfails = [i \in Reqs |-> 0]
    /\ href = [i \in Reqs |-> 0]
    /\ heap = <<>>
    /\ running = 0
    /\ tasks = <<>>
    /\ sent = [i \in Reqs |-> FALSE]
    /\ logs = {}

(***************************************************************************)
(* State machine of one text-message request.                              *)
(***************************************************************************)
NoRaw == <<Tok("unset")>>
NoRecord == EmptyObj

CallEntry(k, outcome) == [ev |-> "call", attempt |-> k, outcome |-> outcome, secs |-> 0]
WaitEntry(k, d) == [ev |-> "wait", attempt |-> k, outcome |-> "none", secs |-> d]

Init ==
    /\ user_id \in UserIds
    /\ user_text \in UserTexts
    /\ pc = "received"
    /\ attempt = 0
    /\ log = <<>>
    /\ raw = NoRaw
    /\ data = NoRecord
    /\ exc = "none"
    /\ result = NoRecord
    /\ dbEvents = <<>>
    /\ dbCalls = <<>>
    /\ renderCalls = <<>>
    /\ image = NoImage
    /\ files = <<>>
    /\ saveTasks = <<>>
    /\ rng = <<>>
    /\ renderExc = "none"
    /\ keyboard = NoKeyboard
    /\ ConcOff

\* handle_any_text up to the call of grok.analyze; _call_grok enters its loop
EnterAnalyze ==
    /\ pc = "received"
    /\ pc' = "call"
    /\ attempt' = RangeStart
    /\ UNCHANGED <<user_id, user_text, log, raw, data, exc, result,
                   dbEvents, dbCalls, renderCalls,
                   image, files, saveTasks, rng, renderExc, keyboard, cvars>>

AttemptOkThenRetry ==
    /\ pc = "call"
    /\ \E r \in Replies :
        /\ raw' = Strip(r)
        /\ log' = Append(log, CallEntry(attempt, "ok"))
    /\ pc' = IF attempt # LastAttempt THEN "sleep" ELSE "sanitize"
    /\ UNCHANGED <<user_id, user_text, attempt, data, exc, result,
                   dbEvents, dbCalls, renderCalls,
                   image, files, saveTasks, rng, renderExc, keyboard, cvars>>

\* _call_grok, lines 150-158: the service answers and the text is returned
AttemptOk ==
    /\ pc = "call"
    /\ \E r \in Replies :
        /\ raw' = Strip(r)
        /\ log' = Append(log, CallEntry(attempt, "ok"))
    /\ pc' = "sanitize"
    /\ UNCHANGED <<user_id, user_text, attempt, data, exc, result,
                   dbEvents, dbCalls, renderCalls,
                   image, files, saveTasks, rng, renderExc, keyboard, cvars>>

\* _call_grok, lines 150-162: the attempt raises
AttemptFail ==
    /\ pc = "call"
    /\ \E e \in AttemptFailures :
        /\ log' = Append(log, CallEntry(attempt, e))
        /\ IF CallGrokCatches(e) /\ attempt # LastAttempt
           THEN pc' = "sleep" /\ exc' = exc
           ELSE pc' = "except" /\ exc' = e
    /\ UNCHANGED <<user_id, user_text, attempt, raw, data, result,
                   dbEvents, dbCalls, renderCalls,
                   image, files, saveTasks, rng, renderExc, keyboard, cvars>>

\* _call_grok, line 163, and the next iteration of the loop (line 148)
Backoff ==
    /\ pc = "sleep"
    /\ log' = Append(log, WaitEntry(attempt, BackoffBase ^ attempt))
    /\ attempt' = attempt + 1
    /\ IF attempt + 1 < RangeEnd
       THEN pc' = "call" /\ exc' = exc
       ELSE pc' = "except" /\ exc' = "AttributeError"   \* None.strip() in _clean_json
    /\ UNCHANGED <<user_id, user_text, raw, data, result,
                   dbEvents, dbCalls, renderCalls,
                   image, files, saveTasks, rng, renderExc, keyboard, cvars>>

\* analyze, lines 185-193 and the evaluation of the arguments of add_event
Sanitize ==
    /\ pc = "sanitize"
    /\ LET parsed == JsonLoads(CleanJson(raw))
       IN  IF ~parsed.ok
           THEN pc' = "except" /\ exc' = "JSONDecodeError" /\ data' = data
           ELSE IF parsed.value.kind # "dict"
           THEN pc' = "except" /\ exc' = "TypeError" /\ data' = data
           ELSE LET validated == Validate(parsed.value.obj)
                IN  /\ data' = validated
                    /\ IF AddEventArgsRaise(validated)
                       THEN pc' = "except" /\ exc' = "AttributeError"
                       ELSE pc' = "add_event" /\ exc' = exc
    /\ UNCHANGED <<user_id, user_text, attempt, log, raw, result,
                   dbEvents, dbCalls, renderCalls,
                   image, files, saveTasks, rng, renderExc, keyboard, cvars>>

\* analyze, lines 196-208, with Database.add_event: the insert succeeds and
\* analyze returns data, or it raises
AddEvent ==
    /\ pc = "add_event"
    /\ LET args == AddEventArgs(user_id, user_text, data)
       IN  /\ dbCalls' = Append(dbCalls, args)
           /\ \E ok \in BOOLEAN :
                IF ok
                THEN /\ dbEvents' = Append(dbEvents, args)
                     /\ result' = data
                     /\ pc' = "returned"
                     /\ exc' = exc
                ELSE /\ dbEvents' = dbEvents
                     /\ result' = result
                     /\ pc' = "except"
                     /\ exc' = "DatabaseError"
    /\ UNCHANGED <<user_id, user_text, attempt, log, raw, data, renderCalls,
                   image, files, saveTasks, rng, renderExc, keyboard, cvars>>

\* analyze, lines 210-215: the except clauses
Except ==
    /\ pc = "except"
    /\ IF AnalyzeCatches(exc)
       THEN result' = FallbackResponse(user_text) /\ pc' = "returned"
       ELSE result' = result /\ pc' = "propagated"
    /\ UNCHANGED <<user_id, user_text, attempt, log, raw, data, exc,
                   dbEvents, dbCalls, renderCalls,
                   image, files, saveTasks, rng, renderExc, keyboard, cvars>>

\* handle_any_text, lines 101-119: the chart is generated when the plan has
\* events or a schedule/goal type; an exception of the renderer leaves the
\* try block of the handler
HandleRender ==
    /\ pc = "returned"
    /\ LET events == Get(result, "events", <<>>)
           graph_type == Get(result, "type", "schedule_day")
           title == Get(result, "title", "Tvoy plan gotov!")
       IN  IF events # <<>> \/ StartsWithSchedule(graph_type) \/ graph_type = "goal_plan"
           THEN /\ renderCalls' = renderCalls \o Generate(graph_type, events, title, user_id)
                /\ \E seed \in SeedsFor(MappingGet(graph_type)) :
                   \E o \in RenderOutcomes(MappingGet(graph_type), events, title,
                                           user_id, seed) :
                      /\ rng' = seed
                      /\ image' = o.image
                      /\ renderExc' = o.exc
                      /\ files' = files \o o.files
                      /\ saveTasks' = saveTasks \o o.tasks
                      /\ pc' = IF o.exc = "none" THEN "done" ELSE "handler_except"
                      /\ keyboard' = IF o.exc = "none"
                                     THEN ReplyKeyboard(result, graph_type)
                                     ELSE keyboard
           ELSE /\ pc' = "done"
                /\ keyboard' = ReplyKeyboard(result, graph_type)
                /\ UNCHANGED <<renderCalls, image, files, saveTasks, rng, renderExc>>
    /\ UNCHANGED <<user_id, user_text, attempt, log, raw, data, exc, result,
                   dbEvents, dbCalls, cvars>>

HandlerExceptRetry ==
    /\ pc = "handler_except"
    /\ pc' = "returned"
    /\ UNCHANGED <<user_id, user_text, attempt, log, raw, data, exc, result,
                   dbEvents, dbCalls, renderCalls, image, files, saveTasks, rng,
                   renderExc, keyboard, cvars>>

\* handle_any_text, lines 143-148: the error message is sent and the handler
\* returns
HandlerExcept ==
    /\ pc = "handler_except"
    /\ pc' = "done"
    /\ keyboard' = MainMenuKeyboard
    /\ UNCHANGED <<user_id, user_text, attempt, log, raw, data, exc, result,
                   dbEvents, dbCalls, renderCalls, image, files, saveTasks, rng,
                   renderExc, cvars>>

Next ==
    \/ EnterAnalyze
    \/ AttemptOk
    \/ AttemptFail
    \/ Backoff
    \/ Sanitize
    \/ AddEvent
    \/ Except
    \/ HandleRender
    \/ HandlerExcept

Spec == Init /\ [][Next]_vars

(***************************************************************************)
(* The render step on its own: the request starts in the state analyze     *)
(* leaves behind after the first call succeeded with a plan whose events   *)
(* list has up to MaxLen entries.                                          *)
(***************************************************************************)
EvColoredLesson ==
    JDict("title" :> "Fizika KR" @@ "color" :> "#123456"
          @@ "start" :> "2026-02-02T09:00:00" @@ "end" :> "2026-02-27T10:00:00")
EvColored ==
    JDict("title" :> "Sozvon" @@ "color" :> "#123456"
          @@ "start" :> "2026-02-20T12:00:00" @@ "end" :> "2026-02-27T10:00:00")
EvEarly == JDict("title" :> "Probezhka" @@ "start" :> "2026-02-05T05:00:00"
                 @@ "end" :> "2026-02-05T23:15:00")
EvLate == JDict("title" :> "Biznes-plan" @@ "start" :> "2026-02-05T23:15:00")
EvSix == JDict("title" :> "Urok fiziki" @@ "start" :> "2026-02-08T06:00:00"
               @@ "end" :> "2026-03-20T10:00:00")
EvMarch == JDict("title" :> "Sozvon" @@ "start" :> "2026-03-20T10:00:00")
EvUnparsable == JDict("title" :> "Sozvon" @@ "start" :> "zavtra" @@ "end" :> "vecherom")
EvAware == JDict("title" :> "Sozvon" @@ "start" :> "2026-02-27T10:00:00Z"
                 @@ "end" :> "2026-02-27T11:30:00Z")
EvNoStart == JDict("title" :> "Vyuchit angliyskiy")

RenderEntries ==
    {Ev1, Ev2, Ev3, EvColoredLesson, EvColored, EvEarly, EvLate, EvSix, EvMarch,
     EvUnparsable, EvAware, EvNoStart, JNum}

\* event lists that repeat a pattern of one or two entries
Patterns == UNION {[1 .. n -> RenderEntries] : n \in 1 .. 2}
Cycle(c, n) == [i \in 1 .. n |-> c[((i - 1) % Len(c)) + 1]]
RenderLists == {Cycle(c, n) : c \in Patterns, n \in 0 .. MaxLen}

RenderTypes == DOMAIN Mapping \cup {"other"}

RenderPlans ==
    {MakeDict(Present(ty), Present("Plan"), Present("Sovet"), Present(ev), Absent) :
        ty \in RenderTypes, ev \in RenderLists}

\* user_id of generate: its default 0, or a user
RenderUserIds == {0} \cup UserIds

RenderInit ==
    /\ user_id \in RenderUserIds
    /\ user_text \in UserTexts
    /\ \E plan \in RenderPlans :
          /\ ~AddEventArgsRaise(Validate(plan))
          /\ raw = <<DocTok(JDict(plan))>>
          /\ data = Validate(plan)
          /\ result = Validate(plan)
          /\ dbCalls = <<AddEventArgs(user_id, user_text, Validate(plan))>>
          /\ dbEvents = <<AddEventArgs(user_id, user_text, Validate(plan))>>
    /\ pc = "returned"
    /\ attempt = RangeStart
    /\ log = <<CallEntry(RangeStart, "ok")>>
    /\ exc = "none"
    /\ renderCalls = <<>>
    /\ image = NoImage
    /\ files = <<>>
    /\ saveTasks = <<>>
    /\ rng = <<>>
    /\ renderExc = "none"
    /\ keyboard = NoKeyboard
    /\ ConcOff

RenderNext ==
    \/ HandleRender
    \/ HandlerExcept

RenderSpec == RenderInit /\ [][RenderNext]_vars

(***************************************************************************)
(* Two text-message requests on one asyncio event loop.  A step is the     *)
(* code a coroutine runs between two awaits; the chart is rendered by a    *)
(* plain call, so the rendering handler keeps the loop thread from         *)
(* CRenderBegin to CRenderEnd.  Replies are reduced to their kind.          *)
(***************************************************************************)
ReplyKinds == {"plan", "unparsable"}

Dict(kind) == [kind |-> kind, marks |-> {}]

SharedFallbackDict(h, kind) ==
    IF kind = "fallback" /\ \E a \in DOMAIN h : h[a].kind = "fallback"
    THEN [heap |-> h, ref |-> CHOOSE a \in DOMAIN h : h[a].kind = "fallback"]
    ELSE [heap |-> Append(h, Dict(kind)), ref |-> Len(h) + 1]

\* json.loads and the dict display of _fallback_response build a new object
NewDict(h, kind) == [heap |-> Append(h, Dict(kind)), ref |-> Len(h) + 1]

LogEntry(by, msg, who) == [by |-> by, msg |-> msg, who |-> who]

SaveJoinedAwaited(i, ts) == \A t \in DOMAIN ts : ts[t].req = i => ts[t].st \in {"done", "failed"}

\* asyncio.create_task(db.save_graph(...)): nothing waits for the task
SaveJoined(i, ts) == TRUE

ConcInit ==
    /\ user_id \in UserIds
    /\ user_text \in UserTexts
    /\ pc = "off"
    /\ attempt = 0
    /\ log = <<>>
    /\ raw = NoRaw
    /\ data = NoRecord
    /\ exc = "none"
    /\ result = NoRecord
    /\ dbEvents = <<>>
    /\ dbCalls = <<>>
    /\ renderCalls = <<>>
    /\ image = NoImage
    /\ files = <<>>
    /\ saveTasks = <<>>
    /\ rng = <<>>
    /\ renderExc = "none"
    /\ keyboard = NoKeyboard
    /\ ExtOff
    /\ hpc = [i \in Reqs |-> "received"]
    /\ hattempt = [i \in Reqs |-> 0]
    /\ hcalls = [i \in Reqs |-> 0]
    /\ hfails = [i \in Reqs |-> 0]
    /\ href = [i \in Reqs |-> 0]
    /\ heap = <<>>
    /\ running = 0
    /\ tasks = <<>>
    /\ sent = [i \in Reqs |-> FALSE]
    /\ logs = {}

svars == <<user_id, user_text, pc, attempt, log, raw, data, exc, result,
           dbEvents, dbCalls, renderCalls, image, files, saveTasks, rng,
           renderExc, keyboard, xvars>>

\* the single-request variables
rvars == <<user_id, user_text, pc, attempt, log, raw, data, exc, result,
           dbEvents, dbCalls, renderCalls, image, files, saveTasks, rng,
           renderExc, keyboard>>

\* the request models are idle
Idle ==
    /\ user_id \in UserIds
    /\ user_text \in UserTexts
    /\ pc = "off"
    /\ attempt = 0
    /\ log = <<>>
    /\ raw = NoRaw
    /\ data = NoRecord
    /\ exc = "none"
    /\ result = NoRecord
    /\ dbEvents = <<>>
    /\ dbCalls = <<>>
    /\ renderCalls = <<>>
    /\ image = NoImage
    /\ files = <<>>
    /\ saveTasks = <<>>
    /\ rng = <<>>
    /\ renderExc = "none"
    /\ keyboard = NoKeyboard
    /\ hpc = [i \in Reqs |-> "off"]
    /\ hattempt = [i \in Reqs |-> 0]
    /\ hcalls = [i \in Reqs |-> 0]
    /\ hfails = [i \in Reqs |-> 0]
    /\ href = [i \in Reqs |-> 0]
    /\ heap = <<>>
    /\ running = 0
    /\ tasks = <<>>
    /\ sent = [i \in Reqs |-> FALSE]
    /\ logs = {}

\* analyze returns a record to handler i
Return(i, kind) ==
    LET n == NewDict(heap, kind)
    IN  /\ heap' = n.heap
        /\ href' = [href EXCEPT ![i] = n.ref]
        /\ hpc' = [hpc EXCEPT ![i] = "returned"]

\* handle_any_text up to grok.analyze; _call_grok enters its loop
CStart(i) ==
    /\ running = 0
    /\ hpc[i] = "received"
    /\ hpc' = [hpc EXCEPT ![i] = "call"]
    /\ hattempt' = [hattempt EXCEPT ![i] = RangeStart]
    /\ UNCHANGED <<svars, hcalls, hfails, href, heap, running, tasks, sent, logs>>

\* the service answers; _clean_json, json.loads and the validation follow
\* without an await
CAttemptOk(i) ==
    /\ running = 0
    /\ hpc[i] = "call"
    /\ hcalls' = [hcalls EXCEPT ![i] = @ + 1]
    /\ \E k \in ReplyKinds :
          IF k = "plan"
          THEN /\ hpc' = [hpc EXCEPT ![i] = "add_event"]
               /\ UNCHANGED <<heap, href, logs>>
          ELSE /\ Return(i, "fallback")
               /\ logs' = logs \cup {LogEntry("grok_client", "json_decode_error", i)}
    /\ UNCHANGED <<svars, hattempt, hfails, running, tasks, sent>>

\* the attempt raises
CAttemptFail(i) ==
    /\ running = 0
    /\ hpc[i] = "call"
    /\ hcalls' = [hcalls EXCEPT ![i] = @ + 1]
    /\ hfails' = [hfails EXCEPT ![i] = @ + 1]
    /\ \E e \in AttemptFailures :
          IF CallGrokCatches(e) /\ hattempt[i] # LastAttempt
          THEN /\ hpc' = [hpc EXCEPT ![i] = "sleep"]
               /\ logs' = logs \cup {LogEntry("grok_client", "attempt_failed", i)}
               /\ UNCHANGED <<heap, href>>
          ELSE /\ Return(i, "fallback")
               /\ logs' = logs \cup {LogEntry("grok_client", "critical_error", i)}
    /\ UNCHANGED <<svars, hattempt, running, tasks, sent>>

\* asyncio.sleep(2 ** attempt) is over; next iteration of the loop
CBackoff(i) ==
    /\ running = 0
    /\ hpc[i] = "sleep"
    /\ hattempt' = [hattempt EXCEPT ![i] = @ + 1]
    /\ hpc' = [hpc EXCEPT ![i] = "call"]
    /\ UNCHANGED <<svars, hcalls, hfails, href, heap, running, tasks, sent, logs>>

\* db.add_event is over: analyze returns data, or the fallback record
CAddEvent(i) ==
    /\ running = 0
    /\ hpc[i] = "add_event"
    /\ \E ok \in BOOLEAN :
          IF ok
          THEN Return(i, "plan") /\ logs' = logs
          ELSE /\ Return(i, "fallback")
               /\ logs' = logs \cup {LogEntry("grok_client", "critical_error", i)}
    /\ UNCHANGED <<svars, hattempt, hcalls, hfails, running, tasks, sent>>

\* the caller changes the record it was given
CMutate(i) ==
    /\ running = 0
    /\ hpc[i] = "returned"
    /\ i \notin heap[href[i]].marks
    /\ heap' = [heap EXCEPT ![href[i]].marks = @ \cup {i}]
    /\ UNCHANGED <<svars, hpc, hattempt, hcalls, hfails, href, running, tasks, sent, logs>>

\* the text reply is sent; a plan with events is rendered by a plain call of
\* GraphGenerator.generate, the fallback record goes on to the keyboard
CRenderBegin(i) ==
    /\ running = 0
    /\ hpc[i] = "returned"
    /\ IF heap[href[i]].kind = "plan"
       THEN hpc' = [hpc EXCEPT ![i] = "rendering"] /\ running' = i
       ELSE hpc' = [hpc EXCEPT ![i] = "keyboard"] /\ running' = running
    /\ UNCHANGED <<svars, hattempt, hcalls, hfails, href, heap, tasks, sent, logs>>

\* generate returns after _save_to_disk created the save_graph task, or
\* raises; the handler reaches its next await
CRenderEnd(i) ==
    /\ running = i
    /\ hpc[i] = "rendering"
    /\ running' = 0
    /\ \E disk_ok \in BOOLEAN :
          IF disk_ok
          THEN /\ tasks' = Append(tasks, [req |-> i, st |-> "pending"])
               /\ hpc' = [hpc EXCEPT ![i] = "send_photo"]
               /\ logs' = logs \cup {LogEntry("graph_generator", "saved_to_disk", i)}
          ELSE /\ tasks' = tasks
               /\ hpc' = [hpc EXCEPT ![i] = "handler_except"]
               /\ logs' = logs \cup {LogEntry("messages", "handler_error", i)}
    /\ UNCHANGED <<svars, hattempt, hcalls, hfails, href, heap, sent>>

\* message.answer_photo is over
CSendPhoto(i) ==
    /\ running = 0
    /\ hpc[i] = "send_photo"
    /\ SaveJoined(i, tasks)
    /\ sent' = [sent EXCEPT ![i] = TRUE]
    /\ hpc' = [hpc EXCEPT ![i] = "keyboard"]
    /\ UNCHANGED <<svars, hattempt, hcalls, hfails, href, heap, running, tasks, logs>>

\* the keyboard message is sent and the handler returns
CKeyboard(i) ==
    /\ running = 0
    /\ hpc[i] = "keyboard"
    /\ hpc' = [hpc EXCEPT ![i] = "done"]
    /\ logs' = logs \cup {LogEntry("messages", "processed", i)}
    /\ UNCHANGED <<svars, hattempt, hcalls, hfails, href, heap, running, tasks, sent>>

\* the error message of the except block is sent and the handler returns
CHandlerExcept(i) ==
    /\ running = 0
    /\ hpc[i] = "handler_except"
    /\ hpc' = [hpc EXCEPT ![i] = "done"]
    /\ UNCHANGED <<svars, hattempt, hcalls, hfails, href, heap, running, tasks, sent, logs>>

\* the loop runs the first step of a save_graph task
TaskStart(t) ==
    /\ running = 0
    /\ tasks[t].st = "pending"
    /\ tasks' = [tasks EXCEPT ![t].st = "running"]
    /\ UNCHANGED <<svars, hpc, hattempt, hcalls, hfails, href, heap, running, sent, logs>>

\* Database.save_graph commits, or raises: the exception stays in the task
TaskFinish(t) ==
    /\ running = 0
    /\ tasks[t].st = "running"
    /\ \E ok \in BOOLEAN :
          tasks' = [tasks EXCEPT ![t].st = IF ok THEN "done" ELSE "failed"]
    /\ UNCHANGED <<svars, hpc, hattempt, hcalls, hfails, href, heap, running, sent, logs>>

\* the interpreter finalises the task object that nobody refers to; asyncio's
\* default exception handler reports the exception that was never retrieved
TaskCollected(t) ==
    /\ running = 0
    /\ tasks[t].st = "failed"
    /\ tasks' = [tasks EXCEPT ![t].st = "collected"]
    /\ logs' = logs \cup {LogEntry("asyncio", "exception_never_retrieved", tasks[t].req)}
    /\ UNCHANGED <<svars, hpc, hattempt, hcalls, hfails, href, heap, running, sent>>

HandlerStep(i) ==
    \/ CStart(i)
    \/ CAttemptOk(i)
    \/ CAttemptFail(i)
    \/ CBackoff(i)
    \/ CAddEvent(i)
    \/ CRenderBegin(i)
    \/ CRenderEnd(i)
    \/ CSendPhoto(i)
    \/ CKeyboard(i)
    \/ CHandlerExcept(i)

ConcNext ==
    \/ \E i \in Reqs : HandlerStep(i)
    \/ \E i \in Reqs : CMutate(i)
    \/ \E t \in DOMAIN tasks : TaskStart(t)
    \/ \E t \in DOMAIN tasks : TaskFinish(t)
    \/ \E t \in DOMAIN tasks : TaskCollected(t)

ConcSpec == ConcInit /\ [][ConcNext]_vars

\* steps the event loop is bound to take: ready handlers and ready tasks run.
\* When the interpreter finalises a finished task object is not in the hands
\* of the program, and no caller is obliged to change its record.
ConcProgress ==
    \/ \E i \in Reqs : HandlerStep(i)
    \/ \E t \in DOMAIN tasks : TaskStart(t)
    \/ \E t \in DOMAIN tasks : TaskFinish(t)

FairConcSpec == ConcSpec /\ WF_vars(ConcProgress)

(***************************************************************************)
(* handlers/callbacks.py: one callback query.  The callback data is kept   *)
(* as the list str.split("_") yields, so that startswith("set_alarm_") is  *)
(* "at least three parts, the first two being set and alarm".              *)
(***************************************************************************)
CallbackDatas ==
    {<<"show", "day">>, <<"show", "contacts">>, <<"materials", "physics">>,
     <<"materials">>, <<"set", "alarm", "30">>, <<"set", "alarm", "">>,
     <<"set", "alarm", "soon">>, <<"send", "geo">>, <<"meeting", "checklist">>,
     <<"pomodoro", "25">>, <<"motivation", "goal">>, <<"add", "step", "7">>,
     <<"add", "step", "None">>, <<"update", "progress", "7">>,
     <<"update", "progress", "">>, <<"admin", "db", "stats">>,
     <<"admin", "restart">>, <<"admin", "">>, <<"retry">>, <<"cancel">>,
     <<"confirm", "delete">>, <<"unknown">>}

\* who presses the button, and the configured Config.ADMIN_ID (0: not set)
AdminUser == 1001
PressingUsers == {42, AdminUser}
AdminIds == {AdminUser, 0}
ButtonSources == {"keyboard", "grok"}

\* data.startswith(prefix + "_"), prefix given by its parts
StartsWithParts(d, prefix) ==
    Len(d) > Len(prefix) /\ SubSeq(d, 1, Len(prefix)) = prefix

\* int(text): the decimal strings of the model
IntTable == [t \in {"7", "25", "30", "60"} |->
                CASE t = "7" -> 7 [] t = "25" -> 25 [] t = "30" -> 30 [] OTHER -> 60]
IntParses(t) == t \in DOMAIN IntTable

AdminAllowedAnyone(user, admin) == TRUE

\* line 117: user_id != Config.ADMIN_ID denies
AdminAllowed(user, admin) == user = admin

Call(handler, arg) == [branch |-> handler, arg |-> arg, exc |-> "none"]
ParseError(handler) == [branch |-> handler, arg |-> <<>>, exc |-> "ValueError"]

\* the if / elif chain of process_callback, lines 73-134
Branch(d) ==
    IF StartsWithParts(d, <<"show">>) THEN Call("handle_show_graph", Tail(d))
    ELSE IF StartsWithParts(d, <<"materials">>) THEN Call("handle_materials", <<d[2]>>)
    ELSE IF StartsWithParts(d, <<"set", "alarm">>)
         THEN IF IntParses(d[3]) THEN Call("handle_set_alarm", <<d[3]>>)
              ELSE ParseError("handle_set_alarm")
    ELSE IF d = <<"send", "geo">> THEN Call("handle_send_geo", <<>>)
    ELSE IF d = <<"meeting", "checklist">> THEN Call("handle_meeting_checklist", <<>>)
    ELSE IF d = <<"pomodoro", "25">> THEN Call("handle_pomodoro", <<"25">>)
    ELSE IF d \in {<<"motivation", "lesson">>, <<"motivation", "goal">>}
         THEN Call("handle_motivation", d)
    ELSE IF StartsWithParts(d, <<"add", "step">>)
         THEN IF IntParses(d[3]) THEN Call("handle_add_step", <<d[3]>>)
              ELSE ParseError("handle_add_step")
    ELSE IF StartsWithParts(d, <<"update", "progress">>)
         THEN IF IntParses(d[3]) THEN Call("handle_update_progress", <<d[3]>>)
              ELSE ParseError("handle_update_progress")
    ELSE IF StartsWithParts(d, <<"admin">>) THEN Call("handle_admin_action", Tail(d))
    ELSE IF d = <<"retry">> THEN Call("handle_retry", <<>>)
    ELSE IF d = <<"cancel">> THEN Call("cancel", <<>>)
    ELSE IF StartsWithParts(d, <<"confirm">>)
         THEN [branch |-> "handle_confirm", arg |-> Tail(d), exc |-> "NameError"]
    ELSE Call("unknown", <<>>)

CallbackCatchesNothing(e) == FALSE

\* line 136: except Exception
CallbackCatches(e) == IsInstance(e, {"Exception"})

CbEvent(ev, arg) == [ev |-> ev, arg |-> arg]

CbInit ==
    /\ Idle
    /\ ms = Off /\ dbc = Off
    /\ \E u \in PressingUsers, a \in AdminIds, d \in CallbackDatas,
          src \in ButtonSources :
          cb = [pc |-> "received", user |-> u, admin |-> a, data |-> d,
                source |-> src, trace |-> <<>>, exc |-> "none", origin |-> "none"]

\* what a step of process_callback that awaits Telegram or the database
\* does: it completes, or it raises
CbStep(ev, arg, origin, next) ==
    \/ cb' = [cb EXCEPT !.trace = Append(@, CbEvent(ev, arg)), !.pc = next]
    \/ cb' = [cb EXCEPT !.trace = Append(@, CbEvent(ev, arg)),
                        !.exc = "TelegramAPIError", !.origin = origin,
                        !.pc = IF origin \in {"ack", "error_answer"}
                                  \/ ~CallbackCatches("TelegramAPIError")
                               THEN "raised" ELSE "except"]

\* line 70: await callback.answer(), before the try block
CbAck ==
    /\ cb.pc = "received"
    /\ CbStep("ack", <<>>, "ack", "dispatch")
    /\ UNCHANGED <<rvars, qvars, ms, dbc>>

\* lines 72-134: the branch is chosen and its action awaited
CbDispatch ==
    /\ cb.pc = "dispatch"
    /\ LET b == Branch(cb.data)
       IN  IF b.exc # "none"
           THEN cb' = [cb EXCEPT !.exc = b.exc,
                                 !.origin = IF b.exc = "ValueError" THEN "parse"
                                            ELSE "action",
                                 !.pc = IF CallbackCatches(b.exc)
                                        THEN "except" ELSE "raised"]
           ELSE IF b.branch = "handle_admin_action"
                   /\ ~AdminAllowed(cb.user, cb.admin)
           THEN CbStep("deny", <<>>, "deny", "done")
           ELSE CbStep(b.branch, b.arg, "action", "done")
    /\ UNCHANGED <<rvars, qvars, ms, dbc>>

\* lines 136-147: the error is logged and reported; a failure of the report
\* to the admin is swallowed, one of the alert to the user is not
CbExcept ==
    /\ cb.pc = "except"
    /\ CbStep("error_alert", <<cb.exc>>, "error_answer", "done")
    /\ UNCHANGED <<rvars, qvars, ms, dbc>>

CbNext == CbAck \/ CbDispatch \/ CbExcept

CbSpec == CbInit /\ [][CbNext]_vars

(***************************************************************************)
(* handlers/messages.py: the message router and the FSM state of one chat  *)
(* session.  The FSM state lives in the dispatcher's storage; a session is *)
(* followed from any stored state through the messages it receives.        *)
(***************************************************************************)
FsmStates == {"none", "waiting_for_text", "waiting_for_goal"}

\* message texts: the two menu texts with a handler of their own, any other
\* text, and a text that starts with "/"
MessageTexts == {"goal_menu", "schedule_menu", "plain", "command"}

\* the handlers of the router, in the order of their registration
Handlers == <<"handle_any_text", "process_goal", "new_schedule", "new_goal">>

\* the filter of each handler (lines 57, 152, 207, 218)
Matches(h, text, fsm) ==
    CASE h = "handle_any_text" -> text # "command"
      [] h = "process_goal"    -> fsm = "waiting_for_goal"
      [] h = "new_schedule"    -> text = "schedule_menu"
      [] h = "new_goal"        -> text = "goal_menu"

Matching(text, fsm) ==
    SelectSeq(Handlers, LAMBDA h : Matches(h, text, fsm))

RouteAll(text, fsm) == Matching(text, fsm)

\* the router hands the message to the first handler whose filter matches
Route(text, fsm) ==
    IF Matching(text, fsm) = <<>> THEN <<>> ELSE <<Head(Matching(text, fsm))>>

\* the awaited steps of process_goal inside its try block, lines 160-198
GoalSteps == <<"analyze", "save_goal", "answer_plan", "generate",
               "answer_photo", "answer_keyboard", "clear">>

\* steps that cannot raise: analyze catches its own errors, and clearing the
\* stored state does no I/O
NeverRaises == {"analyze", "clear"}

MsInit ==
    /\ Idle
    /\ cb = Off /\ dbc = Off
    /\ \E f \in FsmStates :
          ms = [pc |-> "idle", fsm |-> f, left |-> MaxMessages, text |-> "none",
                queue |-> <<>>, handler |-> "none", goal |-> FALSE, step |-> 0,
                analyze |-> 0, service |-> 0, before |-> f, hist |-> <<>>]

\* a message arrives and is routed
MsReceive ==
    /\ ms.pc = "idle"
    /\ ms.left > 0
    /\ \E t \in MessageTexts :
          ms' = [ms EXCEPT !.pc = "routed", !.text = t, !.left = @ - 1,
                           !.queue = Route(t, ms.fsm), !.handler = "none",
                           !.goal = FALSE, !.step = 0, !.analyze = 0,
                           !.service = 0, !.before = ms.fsm]
    /\ UNCHANGED <<rvars, qvars, cb, dbc>>

\* the handler that was chosen starts: handle_any_text up to line 82 (or its
\* call of process_goal, line 73), process_goal up to line 158, new_schedule
\* and new_goal as a whole; a failing answer or add_user leaves the handler
MsEnter ==
    /\ ms.pc = "routed"
    /\ ms.queue # <<>>
    /\ LET h == Head(ms.queue)
           m == [ms EXCEPT !.handler = h, !.queue = Tail(@)]
       IN  \/ ms' = [m EXCEPT !.pc = "raised"]
           \/ ms' = CASE h = "handle_any_text" /\ ms.fsm = "waiting_for_goal" ->
                            [m EXCEPT !.pc = "goal", !.goal = TRUE, !.step = 1]
                      [] h = "handle_any_text" -> [m EXCEPT !.pc = "analyze"]
                      [] h = "process_goal" ->
                            [m EXCEPT !.pc = "goal", !.goal = TRUE, !.step = 1]
                      [] h = "new_schedule" ->
                            [m EXCEPT !.pc = "finished", !.fsm = "waiting_for_text"]
                      [] h = "new_goal" ->
                            [m EXCEPT !.pc = "finished", !.fsm = "waiting_for_goal"]
    /\ UNCHANGED <<rvars, qvars, cb, dbc>>

\* grok.analyze: one call, which calls the service one to three times and
\* returns a record
Analyzed(m) ==
    {[m EXCEPT !.analyze = @ + 1, !.service = @ + n] : n \in RangeStart..LastAttempt}

\* handle_any_text, lines 82-148: the analysis, the replies and the chart;
\* the except clause answers once more, and that answer can fail
MsAnyText ==
    /\ ms.pc = "analyze"
    /\ \E m \in Analyzed(ms), end \in {"finished", "raised"} :
          ms' = [m EXCEPT !.pc = end]
    /\ UNCHANGED <<rvars, qvars, cb, dbc>>

\* process_goal, lines 160-198: one awaited step of the try block
MsGoalStep ==
    /\ ms.pc = "goal"
    /\ LET st == GoalSteps[ms.step]
       IN  \/ /\ st = "analyze"
              /\ \E m \in Analyzed(ms) : ms' = [m EXCEPT !.step = @ + 1]
           \/ /\ st = "clear"
              /\ ms' = [ms EXCEPT !.fsm = "none", !.pc = "finished"]
           \/ /\ st \notin NeverRaises
              /\ \/ ms' = [ms EXCEPT !.step = @ + 1]
                 \/ ms' = [ms EXCEPT !.pc = "goal_except"]
    /\ UNCHANGED <<rvars, qvars, cb, dbc>>

\* process_goal, lines 200-203: the error message is sent, then the state is
\* cleared; when the message cannot be sent the exception leaves the handler
MsGoalExcept ==
    /\ ms.pc = "goal_except"
    /\ \/ ms' = [ms EXCEPT !.fsm = "none", !.pc = "finished"]
       \/ ms' = [ms EXCEPT !.pc = "raised"]
    /\ UNCHANGED <<rvars, qvars, cb, dbc>>

\* the handler has returned or raised, or no handler matched: the router
\* is done with the message
MsDone ==
    /\ \/ ms.pc \in {"finished", "raised"}
       \/ ms.pc = "routed" /\ ms.queue = <<>>
    /\ IF ms.queue # <<>> /\ ms.pc = "finished"
       THEN ms' = [ms EXCEPT !.pc = "routed"]
       ELSE ms' = [ms EXCEPT !.pc = "idle",
                     !.hist = Append(@, [text |-> ms.text, handler |-> ms.handler,
                                         before |-> ms.before, after |-> ms.fsm,
                                         goal |-> ms.goal, analyze |-> ms.analyze,
                                         service |-> ms.service,
                                         raised |-> ms.pc = "raised"])]
    /\ UNCHANGED <<rvars, qvars, cb, dbc>>

MsNext == MsReceive \/ MsEnter \/ MsAnyText \/ MsGoalStep \/ MsGoalExcept \/ MsDone

MsSpec == MsInit /\ [][MsNext]_vars

(***************************************************************************)
(* database.py: the Database object db and the coroutines that use it.     *)
(* main awaits db.init() before it starts polling, so the other operations *)
(* start once init has returned; from then on they interleave freely.      *)
(***************************************************************************)
DbOps == {"init", "add_user", "add_event", "get_last_events", "save_goal",
          "save_graph"}

NoConnection == 0    \* self._connection = None

StartedAnyTime(o) == TRUE

\* main.py, line 163: await db.init() comes before dp.start_polling
Started(o) == o = "init" \/ dbc.ops["init"].pc = "done"

DbInit ==
    /\ Idle
    /\ cb = Off /\ ms = Off
    /\ dbc = [pc |-> "on", conn |-> NoConnection, opened |-> 0,
              ops |-> [o \in DbOps |-> [pc |-> "idle", used |-> NoConnection]]]

\* _get_connection, line 53: the test of self._connection; when it is set
\* the coroutine returns it without suspending
DbCall(o) ==
    /\ dbc.ops[o].pc = "idle"
    /\ Started(o)
    /\ IF dbc.conn = NoConnection
       THEN dbc' = [dbc EXCEPT !.ops[o].pc = "connecting"]
       ELSE dbc' = [dbc EXCEPT !.ops[o].pc = "using", !.ops[o].used = dbc.conn]
    /\ UNCHANGED <<rvars, qvars, cb, ms>>

\* line 54: aiosqlite.connect returns and the attribute is assigned
DbConnect(o) ==
    /\ dbc.ops[o].pc = "connecting"
    /\ dbc' = [dbc EXCEPT !.opened = @ + 1, !.conn = dbc.opened + 1,
                          !.ops[o].pc = "pragma"]
    /\ UNCHANGED <<rvars, qvars, cb, ms>>

\* lines 56-60: after the awaited PRAGMA statements the attribute is read
\* again and returned
DbReturn(o) ==
    /\ dbc.ops[o].pc = "pragma"
    /\ dbc' = [dbc EXCEPT !.ops[o].pc = "using", !.ops[o].used = dbc.conn]
    /\ UNCHANGED <<rvars, qvars, cb, ms>>

\* the statements of the operation on the connection it was given
DbFinish(o) ==
    /\ dbc.ops[o].pc = "using"
    /\ dbc' = [dbc EXCEPT !.ops[o].pc = "done"]
    /\ UNCHANGED <<rvars, qvars, cb, ms>>

DbNext == \E o \in DbOps : DbCall(o) \/ DbConnect(o) \/ DbReturn(o) \/ DbFinish(o)

DbSpec == DbInit /\ [][DbNext]_vars

(***************************************************************************)
(* Vocabulary of the properties.                                           *)
(***************************************************************************)
IsCall(x) == x.ev = "call"
IsWait(x) == x.ev = "wait"
NumCalls == Len(SelectSeq(log, IsCall))
NumWaits == Len(SelectSeq(log, IsWait))

\* error kinds the specification calls retryable / non-retryable
SpecRetryable == {"APIConnectionError", "APITimeoutError", "InternalServerError"}
SpecNonRetryable == {"BadRequestError", "AuthenticationError"}

AllCallsFailedWith(kinds) ==
    \A i \in DOMAIN log : IsCall(log[i]) => log[i].outcome \in kinds

LeftCallGrok == pc \notin {"received", "call", "sleep"}
AnalyzeReturned == pc \in {"returned", "handler_except", "done"}

\* the text handed to json.loads is exactly one JSON document
IsOneDocument(s) == Len(s) = 1 /\ s[1].t = "doc"
ReplyParses == raw # NoRaw /\ IsOneDocument(CleanJson(raw))
ReplyIsDict == ReplyParses /\ CleanJson(raw)[1].v.kind = "dict"
ReplyObj == CleanJson(raw)[1].v.obj

FixedFallback ==
    [type      |-> "other",
     title     |-> "Ne udalos obrabotat zapros",
     advice    |-> "Izvini, Grok vremenno ne smog obrabotat tvoy tekst",
     events    |-> <<>>,
     buttons   |-> <<[text |-> "Poprobovat snova", callback |-> "retry"]>>,
     help_text |-> "Nazhmi knopku dlya povtornoy popytki"]

(***************************************************************************)
(* C1: _call_grok calls the reasoning service at most 3 times; when every  *)
(* attempt fails with a retryable error (connection failure, timeout,      *)
(* upstream server error) it calls it exactly 3 times and ends in failure. *)
(***************************************************************************)
C1_AtMostThreeAttempts ==
    /\ NumCalls <= 3
    /\ (LeftCallGrok /\ AllCallsFailedWith(SpecRetryable))
          => /\ NumCalls = 3
             /\ raw = NoRaw
             /\ exc = log[Len(log)].outcome

C1_Witness ==
    /\ pc = "except"
    /\ NumCalls = 3
    /\ AllCallsFailedWith(SpecRetryable)
    /\ log[1].outcome = "APIConnectionError"
    /\ log[Len(log)].outcome = "InternalServerError"

(***************************************************************************)
(* C2: every backoff wait follows a failed retryable attempt k < 3 and     *)
(* lasts 2^k time units, every such failure is followed by that wait, and  *)
(* no wait follows any other event.                                        *)
(***************************************************************************)
C2_BackoffOnlyAfterRetryableFailure ==
    \A i \in DOMAIN log :
        /\ IsWait(log[i]) =>
              /\ i > 1
              /\ IsCall(log[i - 1])
              /\ log[i - 1].outcome \in SpecRetryable
              /\ log[i - 1].attempt < 3
              /\ log[i].secs = 2 ^ log[i - 1].attempt
        /\ (IsCall(log[i]) /\ log[i].outcome \in SpecRetryable
               /\ log[i].attempt < 3 /\ i < Len(log))
              => IsWait(log[i + 1])

(***************************************************************************)
(* C3: an attempt that fails with a non-retryable error kind (malformed    *)
(* request, authentication failure) ends _call_grok: no wait and no        *)
(* further attempt follows it.                                             *)
(***************************************************************************)
C3_NonRetryableFailsImmediately ==
    \A i \in DOMAIN log :
        (IsCall(log[i]) /\ log[i].outcome \in SpecNonRetryable) => i = Len(log)

(***************************************************************************)
(* C4: every record returned by analyze has a type among the nine          *)
(* PlanType values.                                                        *)
(***************************************************************************)
C4_ReturnedTypeInPlanTypes ==
    result # NoRecord => result["type"] \in PlanTypes

(***************************************************************************)
(* C5: analyze never lets an error escape and terminates: until it has     *)
(* returned a step is always possible, and the steps it can repeat (calls, *)
(* waits, the save) are bounded; the record it returns is the sanitized    *)
(* plan of a parseable reply or the fixed fallback record.                 *)
(***************************************************************************)
C5_ResultOK ==
    /\ pc # "propagated"
    /\ (result # NoRecord) <=> AnalyzeReturned
    /\ AnalyzeReturned =>
          \/ result = FixedFallback
          \/ /\ ReplyIsDict
             /\ result = data
             /\ \A k \in DOMAIN ReplyObj : result[k] = ReplyObj[k]

C5_AnalyzeAlwaysReturns ==
    /\ C5_ResultOK
    /\ ~AnalyzeReturned =>
          \/ ENABLED (EnterAnalyze \/ AttemptFail \/ Backoff \/ AddEvent \/ Except)
          \/ pc = "sanitize"
    /\ NumCalls + NumWaits <= 5
    /\ Len(dbCalls) <= 1

C5_Witness ==
    /\ AnalyzeReturned
    /\ exc = "DatabaseError"
    /\ result = FixedFallback

(***************************************************************************)
(* C6: when the reasoning call fails 3 times in a row with timeouts, the   *)
(* record analyze returns is the fixed fallback: type other, the fixed     *)
(* advice, no events and exactly one button, whose action is retry.        *)
(***************************************************************************)
C6_ThreeTimeoutsGiveFallback ==
    (AnalyzeReturned /\ NumCalls = 3 /\ AllCallsFailedWith({"APITimeoutError"}))
        => /\ result = FixedFallback
           /\ result["type"] = "other"
           /\ result["events"] = <<>>
           /\ Len(result["buttons"]) = 1
           /\ result["buttons"][1].callback = "retry"

C6_Witness ==
    /\ AnalyzeReturned
    /\ NumCalls = 3
    /\ NumWaits = 2
    /\ AllCallsFailedWith({"APITimeoutError"})

(***************************************************************************)
(* C7: when the reply, after fence stripping, is not parseable, analyze    *)
(* returns the fallback record with type other and exactly one button, and *)
(* nothing of the reply is in the record.                                  *)
(***************************************************************************)
C7_UnparsableGivesFallback ==
    (AnalyzeReturned /\ raw # NoRaw /\ ~ReplyParses)
        => /\ result = FixedFallback
           /\ result["type"] = "other"
           /\ Len(result["buttons"]) = 1
           /\ \A i \in DOMAIN raw :
                (raw[i].t = "doc" /\ raw[i].v.kind = "dict") =>
                    \A k \in DOMAIN raw[i].v.obj \cap {"title", "advice"} :
                        result[k] # raw[i].v.obj[k]

C7_Witness ==
    /\ AnalyzeReturned
    /\ raw # NoRaw
    /\ ~ReplyParses
    /\ \E i \in DOMAIN raw : raw[i].t = "doc" /\ raw[i].v.kind = "dict"
    /\ exc = "JSONDecodeError"

(***************************************************************************)
(* C8: for a parseable reply that is a key/value document the sanitized    *)
(* record has type, title and advice: a missing type becomes "other", a    *)
(* missing title or advice a non-empty placeholder, present keys keep      *)
(* their value, and a missing key causes neither failure nor fallback.     *)
(***************************************************************************)
C8_RequiredKeysDefaulted ==
    (ReplyIsDict /\ pc # "sanitize") =>
        /\ Required \subseteq DOMAIN data
        /\ DOMAIN data = DOMAIN ReplyObj \cup Required
        /\ \A k \in DOMAIN ReplyObj : data[k] = ReplyObj[k]
        /\ "type" \notin DOMAIN ReplyObj => data["type"] = "other"
        /\ \A k \in {"title", "advice"} \ DOMAIN ReplyObj :
              data[k] = "Ne ukazano" /\ data[k] # ""
        /\ exc \in {"none", "AttributeError", "DatabaseError"}
        /\ exc = "AttributeError" => ReplyObj["events"][1].kind # "dict"
        /\ (AnalyzeReturned /\ exc = "none") => result = data

C8_Witness ==
    /\ ReplyIsDict
    /\ AnalyzeReturned
    /\ DOMAIN ReplyObj \cap Required = {}
    /\ result["type"] = "other"
    /\ result["advice"] = "Ne ukazano"

(***************************************************************************)
(* C9: when the reasoning call and parsing succeeded and add_event fails,  *)
(* analyze returns the sanitized plan, not the fallback record.            *)
(***************************************************************************)
C9_PersistenceFailureKeepsPlan ==
    (AnalyzeReturned /\ exc = "DatabaseError")
        => result = data /\ result # FixedFallback

(***************************************************************************)
(* C10: generate invokes exactly one renderer per call, chosen by the type *)
(* string: the day, week, month and semester renderers for their schedule  *)
(* types, the year renderer for schedule_year and goal_plan, and the day   *)
(* renderer for every other string.                                        *)
(***************************************************************************)
C10_Renderer(t) ==
    CASE t = "schedule_day"      -> "day_gantt"
      [] t = "schedule_week"     -> "week_heatmap"
      [] t = "schedule_month"    -> "month_bar"
      [] t = "schedule_semester" -> "semester_gantt"
      [] t \in {"schedule_year", "goal_plan"} -> "year_progress_line"
      [] OTHER                   -> "day_gantt"

C10_GenerateCalled ==
    \/ "events" \in DOMAIN result /\ result["events"] # <<>>
    \/ result["type"] \in {"goal_plan", "schedule_day", "schedule_week",
                          "schedule_month", "schedule_semester", "schedule_year"}

C10_GenerateDispatch ==
    /\ Len(renderCalls) <= 1
    /\ \A i \in DOMAIN renderCalls :
          renderCalls[i].func = C10_Renderer(renderCalls[i].graph_type)
    /\ (pc = "done" /\ C10_GenerateCalled) => Len(renderCalls) = 1

C10_Witness ==
    /\ pc = "done"
    /\ Len(renderCalls) = 1
    /\ renderCalls[1].graph_type \in {"banana", "lesson_help"}
    /\ renderCalls[1].func = "day_gantt"

(***************************************************************************)
(* Vocabulary of the renderer properties.                                  *)
(***************************************************************************)
Rendered == pc = "done" /\ Len(renderCalls) = 1 /\ renderExc = "none"
RenderFailed == Len(renderCalls) = 1 /\ renderExc # "none"
RenderedBy(func) == Rendered /\ renderCalls[1].func = func
Input == renderCalls[1].events
HasBars == Rendered /\ image.kind \in {"day", "semester"}
HasExplicitColor(ev) == "color" \in DOMAIN ev.obj
TitleCategoryColor(ev) ==
    LET t == Words(Get(ev.obj, "title", ""))
    IN  IF t \cap LessonWords # {} THEN COLORS.lesson
        ELSE IF t \cap MeetingWords # {} THEN COLORS.meeting
        ELSE IF t \cap GoalWords # {} THEN COLORS.goal
        ELSE COLORS.default

\* C11: a drawn event that carries an explicit color has exactly that color,
\* whatever its title; an event without explicit color has the color of the
\* category its title names, or the default color when it names none.
C11_ExplicitColorWins ==
    HasBars =>
        \A i \in DOMAIN image.bars :
            IF HasExplicitColor(Input[i])
            THEN image.bars[i].color = Input[i].obj["color"]
            ELSE image.bars[i].color = TitleCategoryColor(Input[i])

RenderCalled == Len(renderCalls) = 1 /\ pc \in {"handler_except", "done"}

\* C12: when the event list has more than 30 entries the renderer does not
\* raise and the chart it returns is the chart of the first 30 entries, in
\* order; the entries after the 30th change nothing.
C12_ExactlyFirstThirty ==
    (RenderCalled /\ Len(Input) > 30) =>
        /\ renderExc = "none"
        /\ \E d \in Renderer(renderCalls[1].func, SubSeq(Input, 1, 30), rng) :
              d.exc = "none" /\ image = d.image

\* C13: a renderer called with an empty event list returns, without raising,
\* a placeholder image that carries a message instead of a chart.
C13_EmptyListGivesPlaceholder ==
    (RenderCalled /\ Input = <<>>) =>
        /\ renderExc = "none"
        /\ image.kind = "placeholder"
        /\ image.message # ""

\* C14: every call of a renderer returns an image; no exception leaves the
\* render call, whatever the event list holds and whether or not the chart
\* file can be written.
C14_RendererNeverFails ==
    RenderCalled => (renderExc = "none" /\ image # NoImage)

RenderWanted ==
    LET events == Get(result, "events", <<>>)
        graph_type == Get(result, "type", "schedule_day")
    IN  events # <<>> \/ StartsWithSchedule(graph_type) \/ graph_type = "goal_plan"

C15_Rank ==
    CASE pc = "received"       -> 14
      [] pc = "call"           -> 15 - 2 * attempt
      [] pc = "sleep"          -> 14 - 2 * attempt
      [] pc = "sanitize"       -> 6
      [] pc = "add_event"      -> 5
      [] pc = "except"         -> 4
      [] pc = "returned"       -> 3
      [] pc = "handler_except" -> 2
      [] pc = "propagated"     -> 1
      [] OTHER                 -> 0

C15_NotStuck ==
    \/ pc \in {"done", "sanitize"}
    \/ ENABLED (EnterAnalyze \/ AttemptFail \/ Backoff \/ AddEvent \/ Except
                  \/ HandlerExcept)
    \/ (pc = "returned" /\ ENABLED HandleRender)

C15_DoneState ==
    pc = "done" =>
        /\ result # NoRecord
        /\ Required \subseteq DOMAIN result
        /\ Len(renderCalls) = (IF RenderWanted THEN 1 ELSE 0)
        /\ RenderWanted /\ renderExc = "none" => image # NoImage
        /\ ~RenderWanted => image = NoImage /\ renderExc = "none"

ValidStart(ev) == IsDict(ev) /\ ParseIso(Get(ev.obj, "start", "")).ok
StartOf(ev) == ParseIso(Get(ev.obj, "start", ""))
StartsOnDay(d) == {i \in DOMAIN Input : ValidStart(Input[i]) /\ StartOf(Input[i]).day = d}
ValidStarts == {i \in DOMAIN Input : ValidStart(Input[i])}
AwareStarts == {i \in ValidStarts : StartOf(Input[i]).aware}
NaiveStarts == ValidStarts \ AwareStarts
NoStartField == \A i \in DOMAIN Input : "start" \notin DOMAIN Input[i].obj

RECURSIVE SumTo(_, _)
SumTo(f, n) == IF n = 0 THEN 0 ELSE f[n] + SumTo(f, n - 1)

MonthDrawn == RenderedBy("month_bar") /\ image.kind = "month"

C16_Kept ==
    IF AwareStarts = {} \/ NaiveStarts = {} THEN ValidStarts
    ELSE IF (CHOOSE i \in ValidStarts : \A j \in ValidStarts : i <= j) \in AwareStarts
         THEN AwareStarts ELSE NaiveStarts

WeekDrawn == RenderedBy("week_heatmap") /\ image.kind = "week"
StartsAt(d, h) ==
    {i \in DOMAIN Input : /\ ValidStart(Input[i])
                          /\ StartOf(Input[i]).weekday = d
                          /\ StartOf(Input[i]).hour = h}
StartsInHours ==
    {i \in DOMAIN Input : /\ ValidStart(Input[i])
                          /\ StartOf(Input[i]).hour \in 6 .. 23}

RECURSIVE SumRow(_, _, _)
SumRow(f, r, d) == IF d < 0 THEN 0 ELSE f[<<r, d>>] + SumRow(f, r, d - 1)

RECURSIVE SumRows(_, _)
SumRows(f, r) == IF r < 0 THEN 0 ELSE SumRow(f, r, 6) + SumRows(f, r - 1)

YearDrawn == RenderedBy("year_progress_line") /\ image.kind = "year"

\* C18: the year chart has 12 monthly progress values, each in [0, 100] and
\* none smaller than the one before it, whatever increments were drawn; the
\* done share of the donut is the 12th value and done plus remaining is 100.
C18_YearProgress ==
    YearDrawn =>
        /\ DOMAIN image.progress = 1 .. 12
        /\ \A m \in 1 .. 12 : image.progress[m] \in 0 .. 100
        /\ \A m \in 1 .. 11 : image.progress[m] <= image.progress[m + 1]
        /\ image.done = image.progress[12]
        /\ image.done + image.remaining = 100

\* the drawn increments add up to more than 100 and the line is capped
C18_Witness ==
    /\ YearDrawn
    /\ SumTo(rng, 12) > 100
    /\ image.progress[1] < 100
    /\ image.done = 100
    /\ image.remaining = 0

ValidTimes(ev) ==
    /\ ParseIso(Get(ev.obj, "start", "")).ok
    /\ ParseIso(Get(ev.obj, "end", "")).ok

\* C19: no event is dropped because a timestamp does not parse.  A bar chart
\* has one bar per event of the truncated list, and the bar of an event whose
\* start or end does not parse has the start and the duration its position
\* gives it; the week grid holds every event except those that start at a
\* valid hour outside 6..23; the month bars add up to the number of events.
C19_InvalidTimestampKept ==
    /\ HasBars =>
          /\ Len(image.bars) =
                Min2(Len(Input), IF image.kind = "day" THEN 30 ELSE 25)
          /\ \A i \in DOMAIN image.bars :
                ~ValidTimes(Input[i]) =>
                    IF image.kind = "day"
                    THEN image.bars[i].start = (i - 1) * 108 /\ image.bars[i].dur = 72
                    ELSE image.bars[i].start = (i - 1) * 7 /\ image.bars[i].dur = 14
    /\ WeekDrawn =>
          SumRows(image.cells, 17)
              = Len(Input) - Cardinality(ValidStarts \ StartsInHours)
    /\ MonthDrawn => SumTo(image.heights, 31) = Len(Input)

\* C20: no bar of a day or semester chart has a negative duration.
C20_NoNegativeDuration ==
    HasBars => \A i \in DOMAIN image.bars : image.bars[i].dur >= 0

(***************************************************************************)
(* Properties of concurrent requests.                                      *)
(***************************************************************************)
Got(i) == href[i] # 0

\* C21: two analyze calls that run interleaved do not share anything.  Each
\* counts its own attempts: its attempt counter is one more than the number
\* of its own failed calls and it never makes more than 3 calls, whatever
\* the other one does.  Each is given a record object of its own, so a
\* change one caller makes to its record never shows in the record of the
\* other, also when both records are fallback records.
C21_RequestsIndependent ==
    /\ \A i \in Reqs :
          /\ hcalls[i] <= 3
          /\ hpc[i] = "call" => (hattempt[i] = hfails[i] + 1 /\ hcalls[i] = hfails[i])
          /\ hpc[i] = "sleep" => (hattempt[i] = hfails[i] /\ hcalls[i] = hfails[i])
          /\ Got(i) => heap[href[i]].marks \subseteq {i}
    /\ \A i \in Reqs : \A j \in Reqs :
          (i # j /\ Got(i) /\ Got(j)) => href[i] # href[j]

\* request 1 used up its three attempts while request 2 got an unparsable
\* reply at its first; request 1 changed its fallback record
C21_Witness ==
    /\ hfails[1] = 3 /\ hcalls[1] = 3
    /\ hfails[2] = 0 /\ hcalls[2] = 1 /\ hattempt[2] = 1
    /\ Got(1) /\ Got(2)
    /\ heap[href[1]].kind = "fallback" /\ heap[href[2]].kind = "fallback"
    /\ heap[href[1]].marks = {1}
    /\ heap[href[2]].marks = {}

\* C22: while the chart of one request is being rendered, the handler of the
\* other request, if it has not finished, can take its next step.
C22_RenderOffTheLoop ==
    \A i \in Reqs : \A j \in Reqs :
        (i # j /\ hpc[i] = "rendering" /\ hpc[j] # "done") => ENABLED HandlerStep(j)

TasksOf(i) == {t \in DOMAIN tasks : tasks[t].req = i}

\* C23: after a render that succeeded the save_graph task of the request
\* exists, and whatever state that task is in, the handler can send the
\* chart as soon as the event loop is free; nothing makes it wait for the
\* write.
C23_SaveGraphFireAndForget ==
    \A i \in Reqs :
        hpc[i] = "send_photo" =>
            /\ TasksOf(i) # {}
            /\ running = 0 => ENABLED CSendPhoto(i)

\* the chart of request 1 was sent and its handler returned while its write
\* had not even started
C23_Witness ==
    /\ sent[1]
    /\ hpc[1] = "done"
    /\ \E t \in TasksOf(1) : tasks[t].st = "pending"

WriteFailed(i) == \E t \in TasksOf(i) : tasks[t].st \in {"failed", "collected"}
WriteFailureLogged(i) ==
    \E e \in logs : e.who = i /\ e.msg \in {"save_graph_failed", "exception_never_retrieved"}

KeyboardSent == pc = "done" /\ renderExc = "none"
PlanButtons == IF "buttons" \in DOMAIN result THEN result["buttons"] ELSE <<>>
OwnButton(b) ==
    [text |-> IF "text" \in DOMAIN b THEN b["text"] ELSE "Knopka",
     callback_data |-> IF "callback" \in DOMAIN b THEN b["callback"] ELSE "unknown"]
OnlyRetry ==
    /\ Len(keyboard.buttons) = 1
    /\ keyboard.buttons[1].callback_data = "retry"
OwnButtonsInOrder ==
    /\ Len(keyboard.buttons) = Len(PlanButtons)
    /\ \A k \in DOMAIN PlanButtons : keyboard.buttons[k] = OwnButton(PlanButtons[k])

Sanitized == pc \notin {"received", "call", "sleep", "sanitize", "off"}
FencedWithTag(d) == <<Fence, TagJson, Ws, DocTok(d), Ws, Fence>>
FencedNoTag(d) == <<Fence, Ws, DocTok(d), Ws, Fence>>
Unwrapped(d) == <<DocTok(d)>>
SanitizedFrom(d) ==
    /\ data # NoRecord
    /\ \A k \in DOMAIN d.obj : k \in DOMAIN data /\ data[k] = d.obj[k]

\* C26: a reply that is a JSON object between a leading fence marker, with
\* or without the language tag, and a trailing fence marker is sanitized to
\* the record of the object itself, and so is the object without a wrapper.
C26_FenceStrippingTransparent ==
    Sanitized =>
        \A d \in Docs :
            (d.kind = "dict" /\ raw \in {FencedWithTag(d), FencedNoTag(d), Unwrapped(d)})
                => SanitizedFrom(d)

(***************************************************************************)
(* Further properties of the renderers.                                    *)
(***************************************************************************)
SemesterDrawn == RenderedBy("semester_gantt") /\ image.kind = "semester"

\* C27: the semester chart has at most 25 bars; they are the bars of the
\* first 25 events of the list, in the order of the list.
C27_SemesterAtMost25 ==
    SemesterDrawn =>
        /\ Len(image.bars) <= 25
        /\ Len(image.bars) = (IF Len(Input) < 25 THEN Len(Input) ELSE 25)
        /\ \A i \in DOMAIN image.bars :
              image.bars[i].label = Get(Input[i].obj, "title", "Nedelya")

\* a list of more than 25 events that alternates two titles
C27_Witness ==
    /\ SemesterDrawn
    /\ Len(Input) > 25
    /\ Len(image.bars) = 25
    /\ image.bars[24].label # image.bars[25].label

\* C28: every image a renderer returns carries the watermark, the
\* placeholder image for an empty event list included.
C28_WatermarkOnEveryImage ==
    (Rendered /\ image # NoImage) => image.watermark

(***************************************************************************)
(* Persistence of the plan and the render policy of the handler.           *)
(***************************************************************************)
\* no attempt of _call_grok produced a reply
NoReplyObtained ==
    \A i \in DOMAIN log : log[i].ev = "call" => log[i].outcome # "ok"
ReplyUnparsable == raw # NoRaw /\ ~ReplyParses

\* start / end of the first event of the returned record, None without events
FirstEventField(k) ==
    IF "events" \in DOMAIN result /\ result["events"] # <<>>
    THEN IF k \in DOMAIN result["events"][1].obj
         THEN result["events"][1].obj[k] ELSE NONE
    ELSE NONE

\* C29: analyze returns a record other than the fallback only after add_event
\* completed successfully exactly once, called with the type and title of the
\* record and the start and end of its first event; when no attempt of the
\* reasoning call produced a reply, or the reply does not parse, add_event is
\* never invoked.
C29_AddEventOnceBeforeReturn ==
    /\ (AnalyzeReturned /\ result # FixedFallback) =>
          /\ Len(dbCalls) = 1
          /\ dbEvents = dbCalls
          /\ dbCalls[1].user_id = user_id
          /\ dbCalls[1].event_type = result["type"]
          /\ dbCalls[1].title = result["title"]
          /\ dbCalls[1].start_time = FirstEventField("start")
          /\ dbCalls[1].end_time = FirstEventField("end")
    /\ (NoReplyObtained \/ ReplyUnparsable) => dbCalls = <<>>

C29_Witness ==
    /\ AnalyzeReturned
    /\ result # FixedFallback
    /\ Len(dbEvents) = 1
    /\ dbEvents[1].start_time # NONE

\* the handler has passed the render decision for the record analyze returned
RenderDecided == pc \in {"done", "handler_except"} /\ result # NoRecord
PlanEvents == IF "events" \in DOMAIN result THEN result["events"] ELSE <<>>
PlanType == IF "type" \in DOMAIN result THEN result["type"] ELSE "schedule_day"
SchedulePrefixed ==
    {"schedule_day", "schedule_week", "schedule_month", "schedule_semester",
     "schedule_year", "schedule_decade"}
RenderAttempted == renderCalls # <<>>

Succeeded == \E i \in DOMAIN log : IsCall(log[i]) /\ log[i].outcome = "ok"
CallsBefore(n) == Len(SelectSeq(SubSeq(log, 1, n), IsCall))

\* C31: _call_grok stops at the first successful attempt: when attempt k is
\* the first to succeed the service has been called exactly k times, the
\* reply of attempt k is what _call_grok returns, and no attempt and no wait
\* follows.
C31_StopsAtFirstSuccess ==
    /\ [](Succeeded =>
            LET last == log[Len(log)]
            IN  /\ IsCall(last) /\ last.outcome = "ok"
                /\ last.attempt \in 1..3
                /\ NumCalls = last.attempt
                /\ \A i \in 1..(Len(log) - 1) :
                      /\ log[i].outcome # "ok"
                      /\ IsCall(log[i]) => log[i].attempt = CallsBefore(i)
                /\ LeftCallGrok
                /\ raw # NoRaw)
    /\ [][Succeeded => (log' = log /\ raw' = raw /\ attempt' = attempt)]_vars

\* the second attempt is the first to succeed
C31_Witness ==
    /\ Succeeded
    /\ NumCalls = 2
    /\ NumWaits = 1
    /\ pc = "returned"

\* an attempt ended with an exception outside the openai APIError hierarchy
NonApiFault ==
    \E i \in DOMAIN log :
        /\ IsCall(log[i])
        /\ log[i].outcome # "ok"
        /\ "APIError" \notin Mro(log[i].outcome)

\* C32: a fault of an attempt that is not an API error is not retried:
\* no attempt and no wait follows it, and analyze returns the fallback
\* record without calling add_event.
C32_NonApiFaultNotRetried ==
    NonApiFault =>
        /\ IsCall(log[Len(log)])
        /\ "APIError" \notin Mro(log[Len(log)].outcome)
        /\ \A i \in 1..(Len(log) - 1) :
              IsCall(log[i]) => "APIError" \in Mro(log[i].outcome)
        /\ pc \in {"except", "returned", "done"}
        /\ pc # "except" => result = FixedFallback
        /\ dbCalls = <<>>
        /\ renderCalls = <<>>

\* the first attempt meets a reply without text content
C32_Witness ==
    /\ NonApiFault
    /\ NumCalls = 1
    /\ NumWaits = 0
    /\ pc = "done"
    /\ result = FixedFallback

(***************************************************************************)
(* Properties of process_callback.                                         *)
(***************************************************************************)
CbTraceHas(ev) == \E i \in DOMAIN cb.trace : cb.trace[i].ev = ev
AdminData == Len(cb.data) >= 2 /\ cb.data[1] = "admin"
CbLeft == cb.pc \in {"done", "raised"}

\* C33: an admin action is executed only when the user who pressed the
\* button is the configured admin; for every other user the callback is
\* denied and handle_admin_action is never invoked, whatever produced the
\* button.
C33_AdminOnly ==
    /\ CbTraceHas("handle_admin_action") => (cb.user = cb.admin /\ AdminData)
    /\ (AdminData /\ cb.user # cb.admin /\ cb.pc \in {"done", "except", "raised"}
          /\ cb.origin # "ack")
          => (CbTraceHas("deny") /\ ~CbTraceHas("handle_admin_action"))

\* an ordinary user presses an admin button that came from the reasoning
\* service
C33_Witness ==
    /\ cb.source = "grok"
    /\ cb.data = <<"admin", "db", "stats">>
    /\ cb.admin = AdminUser
    /\ cb.user # AdminUser
    /\ cb.pc = "done"
    /\ CbTraceHas("deny")

\* C34: the callback query is acknowledged before the dispatch on the
\* callback data, and no exception raised by a dispatched action or by
\* parsing the callback data leaves process_callback.
C34_AckFirstNoEscape ==
    /\ cb.pc # "received" => (Len(cb.trace) >= 1 /\ cb.trace[1].ev = "ack")
    /\ \A i \in DOMAIN cb.trace : i > 1 => cb.trace[i].ev # "ack"
    /\ cb.pc = "raised" => cb.origin \in {"ack", "error_answer"}
    /\ cb.origin \in {"parse", "action", "deny"} => cb.pc \in {"except", "done"}

\* set_alarm_soon: int("soon") raises, the error is reported, the handler
\* returns
C34_Witness ==
    /\ cb.data = <<"set", "alarm", "soon">>
    /\ cb.exc = "ValueError"
    /\ cb.origin = "parse"
    /\ cb.pc = "done"
    /\ CbTraceHas("error_alert")

(***************************************************************************)
(* Properties of the message router and of the FSM state.                  *)
(***************************************************************************)
\* C35: whenever process_goal is done with a text message, on success and on
\* any failure of the reasoning call, of the goal persistence, of the
\* rendering or of the delivery, the FSM state of the user has been cleared.
C35_GoalStateCleared ==
    \A i \in DOMAIN ms.hist :
        ms.hist[i].goal => ms.hist[i].after # "waiting_for_goal"

\* C36: the menu text of the goal button is handled by new_goal, the session
\* enters waiting_for_goal, and the next text message of the user is
\* processed by process_goal.
C36_GoalMenuEntersWaiting ==
    \A i \in DOMAIN ms.hist :
        ms.hist[i].text = "goal_menu" =>
            /\ ms.hist[i].handler = "new_goal"
            /\ ms.hist[i].after = "waiting_for_goal"
            /\ (i + 1 \in DOMAIN ms.hist /\ ms.hist[i + 1].text = "plain")
                  => ms.hist[i + 1].goal

\* C37: a text message triggers at most one call of grok.analyze, hence at
\* most 3 calls of the reasoning service, in every FSM state; a message
\* received in waiting_for_goal is analyzed by process_goal and by nothing
\* else.
C37_OneAnalyzePerMessage ==
    /\ ms.analyze <= 1
    /\ ms.service <= 3
    /\ \A i \in DOMAIN ms.hist :
          /\ ms.hist[i].analyze <= 1
          /\ ms.hist[i].service <= 3
          /\ (ms.hist[i].before = "waiting_for_goal" /\ ms.hist[i].analyze > 0)
                => ms.hist[i].goal

\* a text received in waiting_for_goal went through process_goal and was
\* analyzed once, with three calls of the service
C37_Witness ==
    \E i \in DOMAIN ms.hist :
        /\ ms.hist[i].before = "waiting_for_goal"
        /\ ms.hist[i].text = "plain"
        /\ ms.hist[i].handler = "handle_any_text"
        /\ ms.hist[i].goal
        /\ ms.hist[i].analyze = 1
        /\ ms.hist[i].service = 3
        /\ ms.hist[i].after = "none"

(***************************************************************************)
(* Properties of the database handle.                                      *)
(***************************************************************************)
\* C38: whatever the interleaving of the database operations, at most one
\* connection is ever opened and every operation works on that connection.
C38_OneConnection ==
    /\ dbc.opened <= 1
    /\ \A o \in DbOps :
          dbc.ops[o].pc \in {"using", "done"} =>
              (dbc.ops[o].used = 1 /\ dbc.conn = 1)

\* add_event and the save_graph task are in flight together
C38_Witness ==
    /\ dbc.ops["add_event"].pc = "using"
    /\ dbc.ops["save_graph"].pc = "using"
    /\ dbc.ops["add_user"].pc = "done"
    /\ dbc.opened = 1

(***************************************************************************)
(* What a render leaves on disk and in the chart history.                  *)
(***************************************************************************)
OwnGraphType(func) ==
    CASE func = "day_gantt"          -> "day"
      [] func = "week_heatmap"       -> "week"
      [] func = "month_bar"          -> "month"
      [] func = "semester_gantt"     -> "semester"
      [] func = "year_progress_line" -> "year"

EmptyThroughPlaceholder ==
    Input = <<>> /\ renderCalls[1].func \in {"day_gantt", "month_bar", "semester_gantt"}

\* C39: a render of an empty event list through the day, month or semester
\* renderer, and any render with user_id 0, writes no file and starts no
\* save_graph; every other completed render writes exactly one file and
\* starts exactly one save_graph, with the graph type of its renderer.
C39_HistoryOnlyRealCharts ==
    Rendered =>
        IF EmptyThroughPlaceholder \/ renderCalls[1].user_id = 0
        THEN files = <<>> /\ saveTasks = <<>>
        ELSE /\ Len(files) = 1
             /\ Len(saveTasks) = 1
             /\ saveTasks[1].graph_type = OwnGraphType(renderCalls[1].func)
             /\ saveTasks[1].user_id = renderCalls[1].user_id
             /\ files[1].graph_type = OwnGraphType(renderCalls[1].func)

\* an empty month: month_bar hands over to day_gantt, nothing is saved for
\* the user
C39_Witness ==
    /\ RenderedBy("month_bar")
    /\ Input = <<>>
    /\ renderCalls[1].user_id # 0
    /\ image.kind = "placeholder"
    /\ files = <<>>
    /\ saveTasks = <<>>

====
